---- MODULE Spec2Model ----
(***************************************************************************)
(* A model of the acquisition workflows (Fetch) of the three ASR backends  *)
(* of xifan2333/2sub -- bijian (chunked upload + poll loop), jianying      *)
(* (signed multi-step) and elevenlabs (single call) -- and of the provider *)
(* Registry (a map guarded by a sync.RWMutex).                             *)
(*                                                                         *)
(* One Fetch call is a sequential program: pc names the step of fetch()    *)
(* the call is in and phase its position inside the step.  Every HTTP      *)
(* round trip is two actions, the request being issued and client.Do       *)
(* returning; the remote side (the responder) chooses the outcome.  The    *)
(* caller's context is cancelled by a concurrent action.                   *)
(***************************************************************************)
EXTENDS Integers, Sequences, FiniteSets, TLC

VARIABLES
    backend,      \* which provider's fetch() this call runs
    pc,           \* the step of fetch() the call is in (or returned from)
    phase,        \* position inside the step: "call", "wait", "check", "sleep", ...;
                  \*   "done" once fetch has returned
    cancelled,    \* ctx.Done() is closed
    inflight,     \* requests issued whose client.Do has not returned yet
    reqCount,     \* per request: how many times it was issued in this call
    uploadResp,   \* bijian fetch: uploadResp (data of the upload authorization)
    etags,        \* bijian uploadParts: etags collected so far
    partIdx,      \* bijian uploadParts: loop variable i
    downloadURL,  \* bijian fetch: downloadURL
    taskID,       \* bijian fetch: taskID
    pollI,        \* bijian pollResult: loop variable i
    uploadCtx,    \* jianying fetch: *uploadContext
    queryID,      \* jianying fetch: queryID
    result,       \* what Fetch returned: [ok, val, err]; NoResult while running
    lastHTTP,     \* responder's record: the outcome of the last client.Do
    firstDone,    \* responder's record: attempt and result string of the first
                  \*   status response whose state was the sentinel
    cancelAt,     \* where the call was when ctx was cancelled
    mu,           \* Registry.mu: [writer, readers, pending]
    providers,    \* Registry.providers: name -> provider
    rpc,          \* per goroutine: position in Register/Get/List
    rop,          \* per goroutine: the call it is making, with its argument
    rret,         \* per goroutine: the value its last Get/List returned
    regLog,       \* the providers stored by Register, in the order of the writes
    optsIn,       \* Provider.Fetch: the opts argument as the caller passed it
    opts,         \* Provider.Fetch: the *Options handed to Validate and fetch
    praw,         \* Provider.Parse: [provider, raw], the argument of the call
    pout,         \* Provider.Parse: what the call returned; NoParse before it
    tpc,          \* Transcribe: position ("get", "fetch", "parse", "done")
    tname,        \* Transcribe: providerName
    tprov,        \* Transcribe: provider
    traw,         \* Transcribe: what provider.Fetch returned
    tres,         \* Transcribe: what Transcribe returned
    tcalls,       \* Transcribe: calls of Fetch and Parse made, and Parse's argument
    cback,        \* concurrent Fetch calls: the backend of each call
    cat,          \* concurrent Fetch calls: index of the network step a call is at
    cwait,        \* concurrent Fetch calls: the step's request is in flight
    csess,        \* concurrent Fetch calls: per frame, session field -> value
    clog,         \* remote side's record of the requests the calls issued
    rsb,          \* resources: the backend of the Fetch call followed
    frame,        \* resources: the function doing a request: [fn, pos, deferred]
    held,         \* resources: open response bodies and file handles of the call
    rcalls,       \* resources: requests the call has completed
    rexit,        \* resources: "running", or the path on which Fetch returned
    fnCall,       \* a helper function followed on its own: [fn, ...arguments]
    fnRet,        \* what that call did and returned; NoRun before it
    clock,        \* signed requests: time.Now().Unix()
    tdid,         \* signed requests: jianying fetch's tdid ("" before it is set)
    signed        \* signed requests: those issued, in order: [fn, url, headers]

fetchVars == <<backend, pc, phase, cancelled, inflight, reqCount, uploadResp,
               etags, partIdx, downloadURL, taskID, pollI, uploadCtx, queryID,
               result, lastHTTP, firstDone, cancelAt>>
regVars == <<mu, providers, rpc, rop, rret, regLog>>
optVars == <<optsIn, opts>>
parseVars == <<praw, pout>>
transVars == <<tpc, tname, tprov, traw, tres, tcalls>>
concVars == <<cback, cat, cwait, csess, clog>>
resVars == <<rsb, frame, held, rcalls, rexit>>
fnVars == <<fnCall, fnRet>>
signVars == <<clock, tdid, signed>>
restVars == <<optVars, parseVars, transVars, concVars, resVars, fnVars, signVars>>
\* what the calls of one entry point leave alone
notParse == <<fetchVars, regVars, optVars, transVars, concVars, resVars, fnVars, signVars>>
notOpts == <<regVars, parseVars, transVars, concVars, resVars, fnVars, signVars>>
notTranscribe == <<fetchVars, regVars, optVars, parseVars, concVars, resVars, fnVars, signVars>>
notConc == <<fetchVars, regVars, optVars, parseVars, transVars, resVars, fnVars, signVars>>
notFn == <<fetchVars, regVars, optVars, parseVars, transVars, concVars, resVars, signVars>>
notSign == <<fetchVars, regVars, optVars, parseVars, transVars, concVars, resVars,
             fnVars>>
notRes == <<fetchVars, regVars, optVars, parseVars, transVars, concVars, fnVars, signVars>>
vars == <<fetchVars, regVars, restVars>>

----------------------------------------------------------------------------
(* Bounds of the model.                                                    *)

\* upload_urls of an upload authorization has 0..MaxParts entries
MaxParts == 2
\* goroutines calling the Registry concurrently
NProcs == 2
\* Register calls that store a provider on one Registry
MaxRegs == 2
\* entries of a words or utterances array in a raw response
MaxWords == 2
\* Fetch calls running concurrently
NCalls == 2
\* requests one Fetch call completes
MaxCalls == 3
\* bytes of an audio file
MaxAudio == 4
\* per_size of an upload authorization
MaxPerSize == 3
\* network interfaces of the host
MaxIfaces == 2
\* seconds that pass during one Fetch call
MaxClock == 2
\* calls of Validate on one options value
MaxValidate == 2

(* Program constants.                                                      *)

\* pollResult: for i := 0; i < 500; i++
MaxAttempts == 500
\* pollResult: state == 4 means completed
StateCompleted == 4
\* http.StatusOK
StatusOK == 200

----------------------------------------------------------------------------
(* Decoded JSON values (interface{}): a tag and a payload.  A Go type      *)
(* assertion v.(T) succeeds exactly when the tag is T's.                   *)

JNull == [t |-> "null", v |-> <<>>]
JStr(s) == [t |-> "str", v |-> s]
JNum(n) == [t |-> "num", v |-> n]
JArr(s) == [t |-> "arr", v |-> s]
JObj(f) == [t |-> "obj", v |-> f]
EmptyObj == JObj(<<>>)

IsObj(j) == j.t = "obj"
IsStr(j) == j.t = "str"
IsNum(j) == j.t = "num"
IsArr(j) == j.t = "arr"

\* m[key] on a map[string]interface{}: nil when the key is absent
Field(j, key) == IF IsObj(j) /\ key \in DOMAIN j.v THEN j.v[key] ELSE JNull

----------------------------------------------------------------------------
(* Errors.  Unwrap follows Err, as errors.Unwrap does for FetchError, for  *)
(* fmt.Errorf("...%w") and for the *url.Error client.Do returns.           *)

NoErr == [type |-> "nil"]
Canceled == [type |-> "context.Canceled"]
NetErr == [type |-> "net"]
FsErr == [type |-> "fs"]
SyntaxErr == [type |-> "json.SyntaxError"]
Msg(m) == [type |-> "errorString", msg |-> m]
Wrap(m, e) == [type |-> "wrapError", msg |-> m, Err |-> e]
UrlError(e) == [type |-> "url.Error", Err |-> e]
APIError(code, body) == [type |-> "APIError", StatusCode |-> code, Response |-> body]
FetchError(step, e) == [type |-> "FetchError", Step |-> step, Err |-> e]

RECURSIVE Cause(_)
Cause(e) == IF "Err" \in DOMAIN e THEN Cause(e.Err) ELSE e

IsFetchError(e) == e.type = "FetchError"
TimeoutErr == Msg("polling timeout after 500 attempts")

\* (value, error) pairs
Ok(v) == [ok |-> TRUE, val |-> v, err |-> NoErr]
Fail(e) == [ok |-> FALSE, val |-> JNull, err |-> e]
NoResult == [ok |-> FALSE, val |-> JNull, err |-> [type |-> "running"]]

----------------------------------------------------------------------------
(* What client.Do can return: an error, or a response with a status, the   *)
(* raw body and (when the body is JSON) its decoded value.                 *)

DoErr(e) == [kind |-> "err", err |-> e, status |-> 0, raw |-> "", json |-> FALSE,
             val |-> JNull, etag |-> "", trunc |-> FALSE, enc |-> ""]
Resp(status, raw, isJson, val) ==
    [kind |-> "resp", err |-> NoErr, status |-> status, raw |-> raw,
     json |-> isJson, val |-> val, etag |-> "", trunc |-> FALSE, enc |-> ""]
RespEtag(status, raw, tag) ==
    [kind |-> "resp", err |-> NoErr, status |-> status, raw |-> raw,
     json |-> FALSE, val |-> JNull, etag |-> tag, trunc |-> FALSE, enc |-> ""]
\* the connection breaks while the body is read: io.ReadAll / Decode fail
Truncated(status) ==
    [kind |-> "resp", err |-> NoErr, status |-> status, raw |-> "",
     json |-> FALSE, val |-> JNull, etag |-> "", trunc |-> TRUE, enc |-> ""]
NoHTTP == [kind |-> "none", err |-> NoErr, status |-> 0, raw |-> "", json |-> FALSE,
           val |-> JNull, etag |-> "", trunc |-> FALSE, enc |-> ""]

BadStatuses == {403, 500}
\* a request sent on a context that is cancelled while it is in flight fails
\* with the context's error, unless the response won the race
DoFailures(c) == IF c THEN {DoErr(UrlError(Canceled))}
                      ELSE {DoErr(UrlError(NetErr))}
ReadErr == [type |-> "io.ErrUnexpectedEOF"]
DeniedResponses == {Resp(s, "denied", FALSE, JNull) : s \in BadStatuses}
ErrorResponses == DeniedResponses
                  \cup {Resp(StatusOK, "<html>", FALSE, JNull)}
                  \cup {Truncated(s) : s \in BadStatuses \cup {StatusOK}}
JsonResp(v) == Resp(StatusOK, "json", TRUE, v)

----------------------------------------------------------------------------
(* bijian: the pure part of each step, from client.Do's outcome to the     *)
(* step's (value, error).                                                  *)

\* doRequest: POST a JSON payload, decode the JSON response
bijian_doRequest(o) ==
    IF o.kind = "err" THEN Fail(o.err)
    ELSE IF o.status # StatusOK THEN Fail(APIError(o.status, o.raw))
    ELSE IF o.trunc THEN Fail(Wrap("failed to parse JSON response", ReadErr))
    ELSE IF ~o.json THEN Fail(Wrap("failed to parse JSON response", SyntaxErr))
    ELSE Ok(o.val)

\* queryResult: GET the task status, decode the JSON response
queryResult(o) ==
    IF o.kind = "err" THEN Fail(o.err)
    ELSE IF o.status # StatusOK THEN Fail(APIError(o.status, o.raw))
    ELSE IF o.trunc THEN Fail(Wrap("failed to parse JSON response", ReadErr))
    ELSE IF ~o.json THEN Fail(Wrap("failed to parse JSON response", SyntaxErr))
    ELSE Ok(o.val)

\* uploadPart: PUT one part, return the Etag response header
uploadPart(o) ==
    IF o.kind = "err" THEN Fail(o.err)
    ELSE IF o.status # StatusOK THEN Fail(APIError(o.status, o.raw))
    ELSE Ok(JStr(o.etag))

requestUpload(o) ==
    LET r == bijian_doRequest(o) IN
    IF ~r.ok THEN r
    ELSE IF ~IsObj(Field(r.val, "data")) THEN Fail(Msg("missing data field in response"))
    ELSE Ok(Field(r.val, "data"))

commitUpload(o) ==
    LET r == bijian_doRequest(o) IN
    IF ~r.ok THEN r
    ELSE IF ~IsObj(Field(r.val, "data")) THEN Fail(Msg("missing data field in response"))
    ELSE IF ~IsStr(Field(Field(r.val, "data"), "download_url"))
         THEN Fail(Msg("missing download_url in response"))
    ELSE Ok(Field(Field(r.val, "data"), "download_url"))

createTask(o) ==
    LET r == bijian_doRequest(o) IN
    IF ~r.ok THEN r
    ELSE IF ~IsObj(Field(r.val, "data")) THEN Fail(Msg("missing data field in response"))
    ELSE IF ~IsStr(Field(Field(r.val, "data"), "task_id"))
         THEN Fail(Msg("missing task_id in response"))
    ELSE Ok(Field(Field(r.val, "data"), "task_id"))

\* json.Unmarshal([]byte(resultStr), &result) into a map[string]interface{}
ResultStrs == {"{\"utterances\":[]}", "{\"utterances\":[{}]}", "not json"}
Unmarshal(s) ==
    IF s = "{\"utterances\":[]}" THEN Ok(JObj([utterances |-> JArr(<<>>)]))
    ELSE IF s = "{\"utterances\":[{}]}" THEN Ok(JObj([utterances |-> JArr(<<EmptyObj>>)]))
    ELSE Fail(SyntaxErr)

\* (mutant) the loop condition off by one: i <= 500
pollMore_OffByOne(i) == i <= MaxAttempts

\* pollResult's loop condition: i < 500
pollMore(i) == i < MaxAttempts

\* (mutant) the loop compares the state with the wrong value
isCompleted_Wrong(state) == state.v = 3

\* pollResult: state == 4 means completed
isCompleted(state) == state.v = StateCompleted

\* (mutant) a response without a usable data.state is taken for "not yet
\* complete"
pollStep_Lenient(o) ==
    LET r == queryResult(o)
        data == Field(r.val, "data")
        state == Field(data, "state")
        resultStr == Field(data, "result")
    IN  IF ~r.ok THEN [stop |-> TRUE, res |-> r]
        ELSE IF IsObj(data) /\ IsNum(state) /\ isCompleted(state)
             THEN IF ~IsStr(resultStr)
                  THEN [stop |-> TRUE, res |-> Fail(Msg("missing result in response"))]
                  ELSE IF ~Unmarshal(resultStr.v).ok
                       THEN [stop |-> TRUE,
                             res |-> Fail(Wrap("failed to parse result JSON",
                                               Unmarshal(resultStr.v).err))]
                       ELSE [stop |-> TRUE, res |-> Unmarshal(resultStr.v)]
        ELSE [stop |-> FALSE, res |-> NoResult]

\* One iteration of pollResult's loop body after queryResult returned:
\* [stop, res]; stop = FALSE means sleep and poll again.
pollStep(o) ==
    LET r == queryResult(o)
        data == Field(r.val, "data")
        state == Field(data, "state")
        resultStr == Field(data, "result")
    IN  IF ~r.ok THEN [stop |-> TRUE, res |-> r]
        ELSE IF ~IsObj(data)
             THEN [stop |-> TRUE, res |-> Fail(Msg("missing data field in response"))]
        ELSE IF ~IsNum(state)
             THEN [stop |-> TRUE, res |-> Fail(Msg("missing state in response"))]
        ELSE IF isCompleted(state)
             THEN IF ~IsStr(resultStr)
                  THEN [stop |-> TRUE, res |-> Fail(Msg("missing result in response"))]
                  ELSE IF ~Unmarshal(resultStr.v).ok
                       THEN [stop |-> TRUE,
                             res |-> Fail(Wrap("failed to parse result JSON",
                                               Unmarshal(resultStr.v).err))]
                       ELSE [stop |-> TRUE, res |-> Unmarshal(resultStr.v)]
        ELSE [stop |-> FALSE, res |-> NoResult]

----------------------------------------------------------------------------
(* bijian: what the remote side can answer.                                *)

Urls(n) == [i \in 1..n |-> JStr("url")]
\* an upload authorization: n upload URLs (the last one not a string when
\* badUrl), per_size and the resource identifiers present or not
UploadData(n, badUrl, hasSize, hasIds) ==
    LET urls == IF badUrl /\ n > 0 THEN [Urls(n) EXCEPT ![n] = JNum(7)] ELSE Urls(n)
        f1 == [upload_urls |-> JArr(urls)]
        f2 == IF hasSize THEN [per_size |-> JNum(2)] ELSE <<>>
        f3 == IF hasIds THEN [in_boss_key |-> JStr("k"), resource_id |-> JStr("r"),
                              upload_id |-> JStr("u")]
                        ELSE <<>>
    IN  JObj(f1 @@ f2 @@ f3)

RequestUploadBodies ==
    {EmptyObj, JObj([data |-> JObj([per_size |-> JNum(2)])])}
    \cup {JObj([data |-> UploadData(n, FALSE, TRUE, ids)]) :
              n \in 0..MaxParts, ids \in BOOLEAN}
    \cup {JObj([data |-> UploadData(n, TRUE, TRUE, TRUE)]) : n \in 1..MaxParts}
    \cup {JObj([data |-> UploadData(n, FALSE, FALSE, TRUE)]) : n \in 0..1}

Etags == {"", "e1"}

CommitBodies ==
    {EmptyObj, JObj([data |-> EmptyObj]),
     JObj([data |-> JObj([download_url |-> JStr("dl")])])}

CreateTaskBodies ==
    {EmptyObj, JObj([data |-> EmptyObj]),
     JObj([data |-> JObj([task_id |-> JStr("t1")])])}

\* task states other than the sentinel
PendingStates == {0, 3}
StatusBodies ==
    {EmptyObj, JObj([data |-> EmptyObj]),
     JObj([data |-> JObj([state |-> JStr("4")])]),
     JObj([data |-> JObj([state |-> JNum(StateCompleted)])])}
    \cup {JObj([data |-> JObj([state |-> JNum(s)])]) : s \in PendingStates}
    \cup {JObj([data |-> JObj([state |-> JNum(StateCompleted), result |-> JStr(s)])]) :
              s \in ResultStrs}

\* the status response reports the sentinel state
ReportsCompleted(o) ==
    /\ o.kind = "resp" /\ o.status = StatusOK /\ o.json
    /\ IsNum(Field(Field(o.val, "data"), "state"))
    /\ Field(Field(o.val, "data"), "state").v = StateCompleted

----------------------------------------------------------------------------
(* The steps of the three workflows and the requests they issue.           *)

BijianSteps == <<"read_file", "request_upload", "upload_parts", "commit_upload",
                 "create_task", "poll_result">>
JianyingSteps == <<"read_file", "upload_sign", "upload_auth", "upload_file",
                   "upload_check", "upload_commit", "submit_task", "query_result">>
ElevenlabsSteps == <<"check_file", "open_file", "copy_file", "http_request",
                     "decompress", "parse_response">>
Steps(b) == IF b = "bijian" THEN BijianSteps
            ELSE IF b = "jianying" THEN JianyingSteps ELSE ElevenlabsSteps
Backends == {"bijian", "jianying", "elevenlabs"}

\* position of a step in its workflow
StepIdx(b, s) == CHOOSE i \in 1..Len(Steps(b)) : Steps(b)[i] = s

\* a request is named by the step that issues it and, for a part upload,
\* by the index of its URL in upload_urls
ReqKeys == {<<BijianSteps[i], 0>> : i \in {2, 4, 5, 6}}
           \cup {<<"upload_parts", k>> : k \in 1..MaxParts}
           \cup {<<JianyingSteps[i], 0>> : i \in 2..8}
           \cup {<<"http_request", 0>>}
Req(step, part, payload) == [step |-> step, part |-> part, payload |-> payload]
Key(r) == <<r.step, r.part>>

\* strings.Join(elems, ",")
RECURSIVE Join(_)
Join(elems) == IF Len(elems) = 0 THEN ""
               ELSE IF Len(elems) = 1 THEN elems[1]
               ELSE elems[1] \o "," \o Join(Tail(elems))

\* client.Do puts the request on the wire
Issue(r) == /\ inflight' = inflight \cup {r}
            /\ reqCount' = [reqCount EXCEPT ![Key(r)] = @ + 1]

\* fetch returns
Return(res) == /\ result' = res
               /\ pc' = pc
               /\ phase' = "done"

\* (mutant) a step's error is returned as it is, without the FetchError
FailStep_Bare(step, e) == Return(Fail(e))

\* fetch returns &FetchError{Step: step, Err: e}
FailStep(step, e) == Return(Fail(FetchError(step, e)))

Goto(step, ph) == /\ pc' = step
                  /\ phase' = ph
                  /\ result' = result

\* client.Do on a context that is already cancelled returns the context's
\* error without sending anything
DoRefused == UrlError(Canceled)

At(b, step, ph) == backend = b /\ pc = step /\ phase = ph

bijianLocals == <<uploadResp, etags, partIdx, downloadURL, taskID, pollI>>
jianyingLocals == <<uploadCtx, queryID>>
observers == <<lastHTTP, firstDone, cancelAt>>

----------------------------------------------------------------------------
(* bijian fetch()                                                          *)

\* os.ReadFile(audioPath)
bijian_ReadFile ==
    /\ At("bijian", "read_file", "call")
    /\ \E readable \in BOOLEAN :
          IF readable THEN Goto("request_upload", "call")
                      ELSE FailStep("read_file", FsErr)
    /\ UNCHANGED <<backend, cancelled, inflight, reqCount, bijianLocals,
                   jianyingLocals, observers, regVars, restVars>>

\* requestUpload: doRequest(ctx, "POST", apiReqUpload, payload, opts) starts
bijian_RequestUploadSend ==
    /\ At("bijian", "request_upload", "call")
    /\ IF cancelled
          THEN /\ FailStep("request_upload", DoRefused)
               /\ UNCHANGED <<inflight, reqCount>>
          ELSE /\ Issue(Req("request_upload", 0, <<>>))
               /\ Goto("request_upload", "wait")
    /\ UNCHANGED <<backend, cancelled, bijianLocals, jianyingLocals, observers,
                   regVars, restVars>>

\* requestUpload: doRequest returns; the data object becomes uploadResp
bijian_RequestUploadRecv ==
    /\ At("bijian", "request_upload", "wait")
    /\ \E r \in inflight, o \in DoFailures(cancelled) \cup ErrorResponses
                                \cup {JsonResp(b) : b \in RequestUploadBodies} :
          LET res == requestUpload(o) IN
          /\ inflight' = inflight \ {r}
          /\ lastHTTP' = o
          /\ IF res.ok
                THEN /\ uploadResp' = res.val
                     /\ Goto("upload_parts", "enter")
                ELSE /\ FailStep("request_upload", res.err)
                     /\ UNCHANGED uploadResp
    /\ UNCHANGED <<backend, cancelled, reqCount, etags, partIdx, downloadURL, taskID,
                   pollI, jianyingLocals, firstDone, cancelAt, regVars, restVars>>

\* uploadParts: the two type assertions before the loop
bijian_UploadPartsEnter ==
    /\ At("bijian", "upload_parts", "enter")
    /\ IF ~IsArr(Field(uploadResp, "upload_urls"))
          THEN FailStep("upload_parts", Msg("missing upload_urls in response"))
          ELSE IF ~IsNum(Field(uploadResp, "per_size"))
                  THEN FailStep("upload_parts", Msg("missing per_size in response"))
                  ELSE Goto("upload_parts", "call")
    /\ UNCHANGED <<backend, cancelled, inflight, reqCount, bijianLocals,
                   jianyingLocals, observers, regVars, restVars>>

\* (mutant) the parts are PUT without waiting for the previous response
bijian_UploadPartSend_Async ==
    /\ At("bijian", "upload_parts", "call")
    /\ LET urls == Field(uploadResp, "upload_urls").v IN
       IF partIdx >= Len(urls)
          THEN /\ Goto("commit_upload", "call")
               /\ UNCHANGED <<inflight, reqCount, etags, partIdx>>
          ELSE /\ Issue(Req("upload_parts", partIdx + 1, <<>>))
               /\ etags' = Append(etags, "")
               /\ partIdx' = partIdx + 1
               /\ Goto("upload_parts", IF partIdx + 1 >= Len(urls) THEN "wait" ELSE "call")
    /\ UNCHANGED <<backend, cancelled, uploadResp, downloadURL, taskID, pollI,
                   jianyingLocals, observers, regVars, restVars>>

\* uploadParts: the loop head and, for the next URL, uploadPart's PUT
bijian_UploadPartSend ==
    /\ At("bijian", "upload_parts", "call")
    /\ LET urls == Field(uploadResp, "upload_urls").v IN
       IF partIdx >= Len(urls)
          THEN /\ Goto("commit_upload", "call")
               /\ UNCHANGED <<inflight, reqCount>>
          ELSE IF ~IsStr(urls[partIdx + 1])
                  THEN /\ FailStep("upload_parts", Msg("invalid upload_url at index"))
                       /\ UNCHANGED <<inflight, reqCount>>
                  ELSE IF cancelled
                          THEN /\ FailStep("upload_parts",
                                           Wrap("failed to upload part", DoRefused))
                               /\ UNCHANGED <<inflight, reqCount>>
                          ELSE /\ Issue(Req("upload_parts", partIdx + 1, <<>>))
                               /\ Goto("upload_parts", "wait")
    /\ UNCHANGED <<backend, cancelled, bijianLocals, jianyingLocals, observers,
                   regVars, restVars>>

\* (mutant) a failed part upload is tried again
bijian_UploadPartRecv_Retry ==
    /\ At("bijian", "upload_parts", "wait")
    /\ \E r \in inflight,
          o \in DoFailures(cancelled) \cup DeniedResponses
                \cup {RespEtag(StatusOK, "", e) : e \in Etags} :
          LET res == uploadPart(o) IN
          /\ inflight' = inflight \ {r}
          /\ lastHTTP' = o
          /\ IF res.ok
                THEN /\ etags' = Append(etags, res.val.v)
                     /\ partIdx' = partIdx + 1
                ELSE UNCHANGED <<etags, partIdx>>
          /\ Goto("upload_parts", "call")
    /\ UNCHANGED <<backend, cancelled, reqCount, uploadResp, downloadURL, taskID,
                   pollI, jianyingLocals, firstDone, cancelAt, regVars, restVars>>

\* (mutant) an empty Etag header is not kept
bijian_UploadPartRecv_SkipEmpty ==
    /\ At("bijian", "upload_parts", "wait")
    /\ \E r \in inflight,
          o \in DoFailures(cancelled) \cup DeniedResponses
                \cup {Truncated(s) : s \in BadStatuses}
                \cup {RespEtag(StatusOK, "", e) : e \in Etags} :
          LET res == uploadPart(o) IN
          /\ inflight' = inflight \ {r}
          /\ lastHTTP' = o
          /\ IF res.ok
                THEN /\ etags' = IF res.val.v = "" THEN etags ELSE Append(etags, res.val.v)
                     /\ partIdx' = partIdx + 1
                     /\ Goto("upload_parts", "call")
                ELSE /\ FailStep("upload_parts", Wrap("failed to upload part", res.err))
                     /\ UNCHANGED <<etags, partIdx>>
    /\ UNCHANGED <<backend, cancelled, reqCount, uploadResp, downloadURL, taskID,
                   pollI, jianyingLocals, firstDone, cancelAt, regVars, restVars>>

\* uploadPart returns: the Etag header is appended to etags
bijian_UploadPartRecv ==
    /\ At("bijian", "upload_parts", "wait")
    /\ \E r \in inflight,
          o \in DoFailures(cancelled) \cup DeniedResponses
                \cup {Truncated(s) : s \in BadStatuses}
                \cup {RespEtag(StatusOK, "", e) : e \in Etags} :
          LET res == uploadPart(o) IN
          /\ inflight' = inflight \ {r}
          /\ lastHTTP' = o
          /\ IF res.ok
                THEN /\ etags' = Append(etags, res.val.v)
                     /\ partIdx' = partIdx + 1
                     /\ Goto("upload_parts", "call")
                ELSE /\ FailStep("upload_parts", Wrap("failed to upload part", res.err))
                     /\ UNCHANGED <<etags, partIdx>>
    /\ UNCHANGED <<backend, cancelled, reqCount, uploadResp, downloadURL, taskID,
                   pollI, jianyingLocals, firstDone, cancelAt, regVars, restVars>>

\* commitUpload: doRequest(ctx, "POST", apiCommitUpload, payload, opts) starts
bijian_CommitSend ==
    /\ At("bijian", "commit_upload", "call")
    /\ IF cancelled
          THEN /\ FailStep("commit_upload", DoRefused)
               /\ UNCHANGED <<inflight, reqCount>>
          ELSE /\ Issue(Req("commit_upload", 0,
                            [InBossKey |-> Field(uploadResp, "in_boss_key"),
                             ResourceId |-> Field(uploadResp, "resource_id"),
                             Etags |-> Join(etags),
                             UploadId |-> Field(uploadResp, "upload_id")]))
               /\ Goto("commit_upload", "wait")
    /\ UNCHANGED <<backend, cancelled, bijianLocals, jianyingLocals, observers,
                   regVars, restVars>>

\* commitUpload: doRequest returns; data.download_url becomes downloadURL
bijian_CommitRecv ==
    /\ At("bijian", "commit_upload", "wait")
    /\ \E r \in inflight, o \in DoFailures(cancelled) \cup ErrorResponses
                                \cup {JsonResp(b) : b \in CommitBodies} :
          LET res == commitUpload(o) IN
          /\ inflight' = inflight \ {r}
          /\ lastHTTP' = o
          /\ IF res.ok
                THEN /\ downloadURL' = res.val.v
                     /\ Goto("create_task", "call")
                ELSE /\ FailStep("commit_upload", res.err)
                     /\ UNCHANGED downloadURL
    /\ UNCHANGED <<backend, cancelled, reqCount, uploadResp, etags, partIdx, taskID,
                   pollI, jianyingLocals, firstDone, cancelAt, regVars, restVars>>

\* createTask: doRequest(ctx, "POST", apiCreateTask, payload, opts) starts
bijian_CreateTaskSend ==
    /\ At("bijian", "create_task", "call")
    /\ IF cancelled
          THEN /\ FailStep("create_task", DoRefused)
               /\ UNCHANGED <<inflight, reqCount>>
          ELSE /\ Issue(Req("create_task", 0, [resource |-> downloadURL]))
               /\ Goto("create_task", "wait")
    /\ UNCHANGED <<backend, cancelled, bijianLocals, jianyingLocals, observers,
                   regVars, restVars>>

\* createTask: doRequest returns; data.task_id becomes taskID
bijian_CreateTaskRecv ==
    /\ At("bijian", "create_task", "wait")
    /\ \E r \in inflight, o \in DoFailures(cancelled) \cup ErrorResponses
                                \cup {JsonResp(b) : b \in CreateTaskBodies} :
          LET res == createTask(o) IN
          /\ inflight' = inflight \ {r}
          /\ lastHTTP' = o
          /\ IF res.ok
                THEN /\ taskID' = res.val.v
                     /\ Goto("poll_result", "check")
                ELSE /\ FailStep("create_task", res.err)
                     /\ UNCHANGED taskID
    /\ UNCHANGED <<backend, cancelled, reqCount, uploadResp, etags, partIdx,
                   downloadURL, pollI, jianyingLocals, firstDone, cancelAt, regVars, restVars>>

----------------------------------------------------------------------------
(* bijian pollResult()                                                     *)

PollKey == <<"poll_result", 0>>


\* a loop head that, once the attempts are used up, waits for ctx.Done()
\* instead of returning
bijian_PollCheck_WaitsForCancel ==
    /\ At("bijian", "poll_result", "check")
    /\ IF cancelled
          THEN FailStep("poll_result", Canceled)
          ELSE pollMore(pollI) /\ Goto("poll_result", "call")
    /\ UNCHANGED <<backend, cancelled, inflight, reqCount, bijianLocals,
                   jianyingLocals, observers, regVars, restVars>>

\* loop head: the loop condition, then the select on ctx.Done()
bijian_PollCheck ==
    /\ At("bijian", "poll_result", "check")
    /\ IF ~pollMore(pollI)
          THEN FailStep("poll_result", TimeoutErr)
          ELSE IF cancelled
                  THEN FailStep("poll_result", Canceled)
                  ELSE Goto("poll_result", "call")
    /\ UNCHANGED <<backend, cancelled, inflight, reqCount, bijianLocals,
                   jianyingLocals, observers, regVars, restVars>>

\* (mutant) the status request does not carry ctx
bijian_PollSend_NoCtx ==
    /\ At("bijian", "poll_result", "call")
    /\ Issue(Req("poll_result", 0, [task_id |-> taskID]))
    /\ Goto("poll_result", "wait")
    /\ UNCHANGED <<backend, cancelled, bijianLocals, jianyingLocals, observers,
                   regVars, restVars>>

\* queryResult: client.Do(req) starts, req carrying ctx
bijian_PollSend ==
    /\ At("bijian", "poll_result", "call")
    /\ IF cancelled
          THEN /\ FailStep("poll_result", DoRefused)
               /\ UNCHANGED <<inflight, reqCount>>
          ELSE /\ Issue(Req("poll_result", 0, [task_id |-> taskID]))
               /\ Goto("poll_result", "wait")
    /\ UNCHANGED <<backend, cancelled, bijianLocals, jianyingLocals, observers,
                   regVars, restVars>>

\* queryResult returns and the loop body inspects data.state
bijian_PollRecv ==
    /\ At("bijian", "poll_result", "wait")
    /\ \E r \in inflight, o \in DoFailures(cancelled) \cup ErrorResponses
                                \cup {JsonResp(b) : b \in StatusBodies} :
          LET st == pollStep(o) IN
          /\ inflight' = inflight \ {r}
          /\ lastHTTP' = o
          /\ firstDone' = IF firstDone.attempt = 0 /\ ReportsCompleted(o)
                             THEN [attempt |-> reqCount[PollKey],
                                   payload |-> Field(Field(o.val, "data"), "result")]
                             ELSE firstDone
          /\ IF st.stop
                THEN IF st.res.ok THEN Return(st.res)
                                  ELSE FailStep("poll_result", st.res.err)
                ELSE Goto("poll_result", "sleep")
    /\ UNCHANGED <<backend, cancelled, reqCount, bijianLocals, jianyingLocals,
                   cancelAt, regVars, restVars>>


\* time.Sleep(1 * time.Second), then i++
bijian_PollSleep ==
    /\ At("bijian", "poll_result", "sleep")
    /\ pollI' = pollI + 1
    /\ Goto("poll_result", "check")
    /\ UNCHANGED <<backend, cancelled, inflight, reqCount, uploadResp, etags, partIdx,
                   downloadURL, taskID, jianyingLocals, observers, regVars, restVars>>

----------------------------------------------------------------------------
(* The caller cancels ctx while the call is running.                       *)

NotCancelled == [step |-> "-", phase |-> "-", polls |-> 0]

Cancel ==
    /\ phase # "done"
    /\ ~cancelled
    /\ cancelled' = TRUE
    /\ cancelAt' = [step |-> pc, phase |-> phase, polls |-> reqCount[PollKey]]
    /\ UNCHANGED <<backend, pc, phase, inflight, reqCount, bijianLocals,
                   jianyingLocals, result, lastHTTP, firstDone, regVars, restVars>>

----------------------------------------------------------------------------
(* jianying: the pure part of each step.                                   *)

\* getStringField(m, key...): the string under key[0], or m itself when m is
\* a string; "" in every other case
getStringField(m, key) ==
    IF IsObj(m)
       THEN IF Len(key) = 0 THEN ""
            ELSE IF IsStr(Field(m, key[1])) THEN Field(m, key[1]).v ELSE ""
       ELSE IF IsStr(m) THEN m.v ELSE ""


\* doRequest that returns every decoded body of a 200 response
jianying_doRequest_NoRet(o) ==
    IF o.kind = "err" THEN Fail(o.err)
    ELSE IF o.trunc THEN Fail(ReadErr)
    ELSE IF o.status # StatusOK THEN Fail(APIError(o.status, o.raw))
    ELSE IF o.raw # "" /\ ~o.json
         THEN Fail(Wrap("failed to parse JSON response", SyntaxErr))
    ELSE Ok(IF o.raw # "" THEN o.val ELSE EmptyObj)

\* doRequest: POST a signed JSON payload, decode the response, check ret
jianying_doRequest(o) ==
    IF o.kind = "err" THEN Fail(o.err)
    ELSE IF o.trunc THEN Fail(ReadErr)
    ELSE IF o.status # StatusOK THEN Fail(APIError(o.status, o.raw))
    ELSE IF o.raw # "" /\ ~o.json
         THEN Fail(Wrap("failed to parse JSON response", SyntaxErr))
    ELSE LET res == IF o.raw # "" THEN o.val ELSE EmptyObj IN
         IF getStringField(res, <<"ret">>) # "0"
            THEN Fail(Msg("API returned error"))
            ELSE Ok(res)

\* getUploadSign: the three credentials out of data
getUploadSign(o, ctx) ==
    LET r == jianying_doRequest(o)
        data == Field(r.val, "data")
    IN  IF ~r.ok THEN r
        ELSE IF ~IsObj(data) THEN Fail(Msg("missing data field in response"))
        ELSE Ok([ctx EXCEPT !.accessKey = getStringField(data, <<"access_key_id">>),
                            !.secretKey = getStringField(data, <<"secret_access_key">>),
                            !.sessionToken = getStringField(data, <<"session_token">>)])

\* getUploadAuth: the upload address out of Result.UploadAddress
getUploadAuth(o, ctx) ==
    LET addr == Field(Field(o.val, "Result"), "UploadAddress")
        storeInfos == Field(addr, "StoreInfos")
        uploadHosts == Field(addr, "UploadHosts")
    IN  IF o.kind = "err" THEN Fail(o.err)
        ELSE IF o.trunc THEN Fail(ReadErr)
        ELSE IF o.status # StatusOK THEN Fail(APIError(o.status, o.raw))
        ELSE IF ~o.json THEN Fail(Wrap("failed to parse JSON response", SyntaxErr))
        ELSE IF ~IsObj(Field(o.val, "Result"))
             THEN Fail(Msg("missing Result field in response"))
        ELSE IF ~IsObj(addr) THEN Fail(Msg("missing UploadAddress field"))
        ELSE IF ~IsArr(storeInfos) \/ Len(storeInfos.v) = 0
             THEN Fail(Msg("missing or empty StoreInfos"))
        ELSE IF ~IsObj(storeInfos.v[1]) THEN Fail(Msg("invalid StoreInfo format"))
        ELSE IF ~IsArr(uploadHosts) \/ Len(uploadHosts.v) = 0
             THEN Fail(Msg("missing or empty UploadHosts"))
        ELSE Ok([ctx EXCEPT
                   !.storeURI = getStringField(storeInfos.v[1], <<"StoreUri">>),
                   !.auth = getStringField(storeInfos.v[1], <<"Auth">>),
                   !.uploadID = getStringField(storeInfos.v[1], <<"UploadID">>),
                   !.sessionKey = getStringField(addr, <<"SessionKey">>),
                   !.uploadHost = getStringField(uploadHosts.v[1], <<>>)])

\* uploadFile: the response must be a JSON object with success == 0
uploadFile(o) ==
    IF o.kind = "err" THEN Fail(o.err)
    ELSE IF o.trunc THEN Fail(ReadErr)
    ELSE IF o.status # StatusOK THEN Fail(APIError(o.status, o.raw))
    ELSE IF o.raw = "" THEN Fail(Msg("empty response body"))
    ELSE IF ~o.json THEN Fail(Wrap("failed to parse JSON response", SyntaxErr))
    ELSE IF ~IsNum(Field(o.val, "success")) \/ Field(o.val, "success").v # 0
         THEN Fail(Msg("unexpected success value"))
    ELSE Ok(JNull)

\* uploadCheck: an empty body passes; a numeric success must be 0
uploadCheck(o) ==
    IF o.kind = "err" THEN Fail(o.err)
    ELSE IF o.trunc THEN Fail(ReadErr)
    ELSE IF o.status # StatusOK THEN Fail(APIError(o.status, o.raw))
    ELSE IF o.raw = "" THEN Ok(JNull)
    ELSE IF ~o.json THEN Fail(Wrap("failed to parse JSON response", SyntaxErr))
    ELSE IF IsNum(Field(o.val, "success")) /\ Field(o.val, "success").v # 0
         THEN Fail(Msg("unexpected success value"))
    ELSE Ok(JNull)

\* uploadCommit: as uploadCheck
uploadCommit(o) ==
    IF o.kind = "err" THEN Fail(o.err)
    ELSE IF o.trunc THEN Fail(ReadErr)
    ELSE IF o.status # StatusOK THEN Fail(APIError(o.status, o.raw))
    ELSE IF o.raw = "" THEN Ok(JNull)
    ELSE IF ~o.json THEN Fail(Wrap("failed to parse JSON response", SyntaxErr))
    ELSE IF IsNum(Field(o.val, "success")) /\ Field(o.val, "success").v # 0
         THEN Fail(Msg("unexpected success value"))
    ELSE Ok(JNull)

\* submitTask: data.id becomes the query identifier
submitTask(o) ==
    LET r == jianying_doRequest(o) IN
    IF ~r.ok THEN r
    ELSE IF ~IsObj(Field(r.val, "data")) THEN Fail(Msg("missing data field in response"))
    ELSE Ok(JStr(getStringField(Field(r.val, "data"), <<"id">>)))

\* queryTask: one request; its decoded response is the result
queryTask(o) == jianying_doRequest(o)

----------------------------------------------------------------------------
(* jianying: what the remote side can answer.                              *)

EmptyBody == Resp(StatusOK, "", FALSE, JNull)
RetOK(f) == JObj([ret |-> JStr("0")] @@ f)

SignBodies ==
    {EmptyObj, JObj([ret |-> JStr("1"), errmsg |-> JStr("busy")]),
     JObj([ret |-> JNum(0)]), RetOK(<<>>), RetOK([data |-> EmptyObj]),
     RetOK([data |-> JObj([access_key_id |-> JStr("ak")])]),
     RetOK([data |-> JObj([access_key_id |-> JStr("ak"),
                           secret_access_key |-> JStr("sk"),
                           session_token |-> JStr("st")])])}

StoreInfoFull == JObj([StoreUri |-> JStr("uri"), Auth |-> JStr("au"),
                       UploadID |-> JStr("up")])
Address(f) == JObj([Result |-> JObj([UploadAddress |-> JObj(f)])])
AuthBodies ==
    {EmptyObj, JObj([Result |-> EmptyObj]), Address(<<>>),
     Address([StoreInfos |-> JArr(<<>>)]),
     Address([StoreInfos |-> JArr(<<JNum(1)>>)]),
     Address([StoreInfos |-> JArr(<<StoreInfoFull>>)]),
     Address([StoreInfos |-> JArr(<<StoreInfoFull>>), UploadHosts |-> JArr(<<>>)]),
     Address([StoreInfos |-> JArr(<<StoreInfoFull>>),
              UploadHosts |-> JArr(<<JStr("host")>>), SessionKey |-> JStr("sess")]),
     Address([StoreInfos |-> JArr(<<EmptyObj>>),
              UploadHosts |-> JArr(<<JNum(1)>>)])}

SuccessBodies ==
    {EmptyObj, JObj([success |-> JNum(0)]), JObj([success |-> JNum(1)]),
     JObj([success |-> JStr("0")])}

SubmitBodies ==
    {EmptyObj, JObj([ret |-> JStr("1")]), RetOK(<<>>), RetOK([data |-> EmptyObj]),
     RetOK([data |-> JObj([id |-> JStr("q1")])])}

\* the query endpoint answers with the utterances once the remote task has
\* finished, and without them while it is still running
QueryBodies ==
    {EmptyObj, JObj([ret |-> JStr("1")]),
     RetOK([data |-> EmptyObj]),
     RetOK([data |-> JObj([utterances |-> JArr(<<>>)])]),
     RetOK([data |-> JObj([utterances |-> JArr(<<EmptyObj>>)])])}

\* the response reports a task that has reached its terminal status
TaskFinished(o) ==
    /\ o.kind = "resp" /\ o.status = StatusOK /\ o.json
    /\ IsArr(Field(Field(o.val, "data"), "utterances"))

HttpFailures(c) == DoFailures(c) \cup ErrorResponses

----------------------------------------------------------------------------
(* jianying fetch()                                                        *)

\* uploadCtx := &uploadContext{}: every field the empty string
EmptyCtx == [accessKey |-> "", secretKey |-> "", sessionToken |-> "", storeURI |-> "",
             auth |-> "", uploadID |-> "", sessionKey |-> "", uploadHost |-> "",
             crc32Hex |-> ""]

\* os.ReadFile(audioPath), the CRC32 of the data, and the new uploadContext
jianying_ReadFile ==
    /\ At("jianying", "read_file", "call")
    /\ \E readable \in BOOLEAN :
          IF readable
             THEN /\ Goto("upload_sign", "call")
                  /\ uploadCtx' = [EmptyCtx EXCEPT !.crc32Hex = "crc"]
             ELSE /\ FailStep("read_file", FsErr)
                  /\ UNCHANGED uploadCtx
    /\ UNCHANGED <<backend, cancelled, inflight, reqCount, bijianLocals, queryID,
                   observers, regVars, restVars>>

\* a step's client.Do starts: refused on a cancelled context, else issued
DoSend(step, payload) ==
    IF cancelled
       THEN /\ FailStep(step, DoRefused)
            /\ UNCHANGED <<inflight, reqCount>>
       ELSE /\ Issue(Req(step, 0, payload))
            /\ Goto(step, "wait")

\* what a request of jianying can be answered with
Answers(bodies) == HttpFailures(cancelled) \cup {EmptyBody}
                   \cup {JsonResp(b) : b \in bodies}

\* getUploadSign: doRequest(ctx, "POST", apiUploadSign, payload, headers) starts
jianying_UploadSignSend ==
    /\ At("jianying", "upload_sign", "call")
    /\ DoSend("upload_sign", <<>>)
    /\ UNCHANGED <<backend, cancelled, bijianLocals, jianyingLocals, observers,
                   regVars, restVars>>

\* getUploadSign: doRequest returns; the credentials go into uploadCtx
jianying_UploadSignRecv ==
    /\ At("jianying", "upload_sign", "wait")
    /\ \E r \in inflight, o \in Answers(SignBodies) :
          LET res == getUploadSign(o, uploadCtx) IN
          /\ inflight' = inflight \ {r}
          /\ lastHTTP' = o
          /\ IF res.ok
                THEN /\ uploadCtx' = res.val
                     /\ Goto("upload_auth", "call")
                ELSE /\ FailStep("upload_sign", res.err)
                     /\ UNCHANGED uploadCtx
    /\ UNCHANGED <<backend, cancelled, reqCount, bijianLocals, queryID, firstDone,
                   cancelAt, regVars, restVars>>

\* getUploadAuth: the signed GET to the upload-authorization host starts
jianying_UploadAuthSend ==
    /\ At("jianying", "upload_auth", "call")
    /\ DoSend("upload_auth", [accessKey |-> uploadCtx.accessKey,
                              secretKey |-> uploadCtx.secretKey,
                              sessionToken |-> uploadCtx.sessionToken])
    /\ UNCHANGED <<backend, cancelled, bijianLocals, jianyingLocals, observers,
                   regVars, restVars>>

\* getUploadAuth: client.Do returns; the upload address goes into uploadCtx
jianying_UploadAuthRecv ==
    /\ At("jianying", "upload_auth", "wait")
    /\ \E r \in inflight, o \in Answers(AuthBodies) :
          LET res == getUploadAuth(o, uploadCtx) IN
          /\ inflight' = inflight \ {r}
          /\ lastHTTP' = o
          /\ IF res.ok
                THEN /\ uploadCtx' = res.val
                     /\ Goto("upload_file", "call")
                ELSE /\ FailStep("upload_auth", res.err)
                     /\ UNCHANGED uploadCtx
    /\ UNCHANGED <<backend, cancelled, reqCount, bijianLocals, queryID, firstDone,
                   cancelAt, regVars, restVars>>

\* the requests to the upload host carry these values of the uploadContext
UploadTarget == [uploadHost |-> uploadCtx.uploadHost, storeURI |-> uploadCtx.storeURI,
                 uploadID |-> uploadCtx.uploadID, auth |-> uploadCtx.auth,
                 crc32Hex |-> uploadCtx.crc32Hex]

\* uploadFile: the PUT of the audio data starts
jianying_UploadFileSend ==
    /\ At("jianying", "upload_file", "call")
    /\ DoSend("upload_file", UploadTarget)
    /\ UNCHANGED <<backend, cancelled, bijianLocals, jianyingLocals, observers,
                   regVars, restVars>>

\* uploadFile: client.Do returns
jianying_UploadFileRecv ==
    /\ At("jianying", "upload_file", "wait")
    /\ \E r \in inflight, o \in Answers(SuccessBodies) :
          /\ inflight' = inflight \ {r}
          /\ lastHTTP' = o
          /\ IF uploadFile(o).ok THEN Goto("upload_check", "call")
                                 ELSE FailStep("upload_file", uploadFile(o).err)
    /\ UNCHANGED <<backend, cancelled, reqCount, bijianLocals, jianyingLocals,
                   firstDone, cancelAt, regVars, restVars>>

\* uploadCheck: the POST of the checksum starts
jianying_UploadCheckSend ==
    /\ At("jianying", "upload_check", "call")
    /\ DoSend("upload_check", UploadTarget)
    /\ UNCHANGED <<backend, cancelled, bijianLocals, jianyingLocals, observers,
                   regVars, restVars>>

\* uploadCheck: client.Do returns
jianying_UploadCheckRecv ==
    /\ At("jianying", "upload_check", "wait")
    /\ \E r \in inflight, o \in Answers(SuccessBodies) :
          /\ inflight' = inflight \ {r}
          /\ lastHTTP' = o
          /\ IF uploadCheck(o).ok THEN Goto("upload_commit", "call")
                                  ELSE FailStep("upload_check", uploadCheck(o).err)
    /\ UNCHANGED <<backend, cancelled, reqCount, bijianLocals, jianyingLocals,
                   firstDone, cancelAt, regVars, restVars>>

\* uploadCommit: the commit PUT starts
jianying_UploadCommitSend ==
    /\ At("jianying", "upload_commit", "call")
    /\ DoSend("upload_commit",
              UploadTarget @@ [sessionToken |-> uploadCtx.sessionToken])
    /\ UNCHANGED <<backend, cancelled, bijianLocals, jianyingLocals, observers,
                   regVars, restVars>>

\* uploadCommit: client.Do returns
jianying_UploadCommitRecv ==
    /\ At("jianying", "upload_commit", "wait")
    /\ \E r \in inflight, o \in Answers(SuccessBodies) :
          /\ inflight' = inflight \ {r}
          /\ lastHTTP' = o
          /\ IF uploadCommit(o).ok THEN Goto("submit_task", "call")
                                   ELSE FailStep("upload_commit", uploadCommit(o).err)
    /\ UNCHANGED <<backend, cancelled, reqCount, bijianLocals, jianyingLocals,
                   firstDone, cancelAt, regVars, restVars>>

\* submitTask: doRequest(ctx, "POST", apiSubmit, payload, headers) starts
jianying_SubmitTaskSend ==
    /\ At("jianying", "submit_task", "call")
    /\ DoSend("submit_task", [audio |-> uploadCtx.storeURI])
    /\ UNCHANGED <<backend, cancelled, bijianLocals, jianyingLocals, observers,
                   regVars, restVars>>

\* submitTask: doRequest returns; data.id becomes queryID
jianying_SubmitTaskRecv ==
    /\ At("jianying", "submit_task", "wait")
    /\ \E r \in inflight, o \in Answers(SubmitBodies) :
          LET res == submitTask(o) IN
          /\ inflight' = inflight \ {r}
          /\ lastHTTP' = o
          /\ IF res.ok
                THEN /\ queryID' = res.val.v
                     /\ Goto("query_result", "call")
                ELSE /\ FailStep("submit_task", res.err)
                     /\ UNCHANGED queryID
    /\ UNCHANGED <<backend, cancelled, reqCount, bijianLocals, uploadCtx, firstDone,
                   cancelAt, regVars, restVars>>

\* queryTask: doRequest(ctx, "POST", apiQuery, payload, headers) starts
jianying_QueryTaskSend ==
    /\ At("jianying", "query_result", "call")
    /\ DoSend("query_result", [id |-> queryID])
    /\ UNCHANGED <<backend, cancelled, bijianLocals, jianyingLocals, observers,
                   regVars, restVars>>

\* queryTask: doRequest returns; fetch returns its response or its error
jianying_QueryTaskRecv ==
    /\ At("jianying", "query_result", "wait")
    /\ \E r \in inflight, o \in Answers(QueryBodies) :
          LET res == queryTask(o) IN
          /\ inflight' = inflight \ {r}
          /\ lastHTTP' = o
          /\ IF res.ok THEN Return(res)
                       ELSE FailStep("query_result", res.err)
    /\ UNCHANGED <<backend, cancelled, reqCount, bijianLocals, jianyingLocals,
                   firstDone, cancelAt, regVars, restVars>>

----------------------------------------------------------------------------
(* elevenlabs fetch()                                                      *)

GzipErr == [type |-> "gzip.ErrHeader"]
Gzipped(o) == [o EXCEPT !.enc = "gzip"]

\* fetch returns while in step `step`
ReturnAt(step, res) == /\ result' = res
                       /\ pc' = step
                       /\ phase' = "done"

\* fetch from client.Do's return to its own: [step, res], the step it returns
\* from and what it returns
elevenlabs_fetch(o) ==
    IF o.kind = "err"
       THEN [step |-> "http_request", res |-> Fail(FetchError("http_request", o.err))]
    ELSE IF o.status # StatusOK
       THEN IF o.trunc
               THEN [step |-> "http_request",
                     res |-> Fail(APIError(o.status, "failed to read body"))]
               ELSE [step |-> "http_request", res |-> Fail(APIError(o.status, o.raw))]
    ELSE IF o.enc = "gzip" /\ o.raw = "corrupt"
       THEN [step |-> "decompress", res |-> Fail(FetchError("decompress", GzipErr))]
    ELSE IF o.trunc
       THEN [step |-> "parse_response",
             res |-> Fail(FetchError("parse_response", ReadErr))]
    ELSE IF ~o.json
       THEN [step |-> "parse_response",
             res |-> Fail(FetchError("parse_response", SyntaxErr))]
    ELSE [step |-> "parse_response", res |-> Ok(o.val)]

TranscriptBodies ==
    {EmptyObj, JObj([text |-> JStr("hi"), words |-> JArr(<<>>)])}

\* os.Stat(audioPath)
elevenlabs_CheckFile ==
    /\ At("elevenlabs", "check_file", "call")
    /\ \E exists \in BOOLEAN :
          IF exists THEN Goto("open_file", "call")
                    ELSE FailStep("check_file", FsErr)
    /\ UNCHANGED <<backend, cancelled, inflight, reqCount, bijianLocals,
                   jianyingLocals, observers, regVars, restVars>>

\* os.Open(audioPath)
elevenlabs_OpenFile ==
    /\ At("elevenlabs", "open_file", "call")
    /\ \E opened \in BOOLEAN :
          IF opened THEN Goto("copy_file", "call")
                    ELSE FailStep("open_file", FsErr)
    /\ UNCHANGED <<backend, cancelled, inflight, reqCount, bijianLocals,
                   jianyingLocals, observers, regVars, restVars>>

\* io.Copy(fileWriter, file); the form fields written to the buffer after it
\* cannot fail
elevenlabs_CopyFile ==
    /\ At("elevenlabs", "copy_file", "call")
    /\ \E copied \in BOOLEAN :
          IF copied THEN Goto("http_request", "call")
                    ELSE FailStep("copy_file", FsErr)
    /\ UNCHANGED <<backend, cancelled, inflight, reqCount, bijianLocals,
                   jianyingLocals, observers, regVars, restVars>>

\* (mutant) the language code is always written
FormFields_Always(o) ==
    LET set == o.type = "elevenlabs.Options"
    IN [file |-> "audio", model_id |-> "scribe_v1", diarize |-> "true",
        tag_audio_events |-> IF set /\ o.TagAudioEvents THEN "true" ELSE "false",
        language_code |-> IF set THEN o.LanguageCode ELSE ""]

\* the fields fetch writes to the multipart form for the options o (a call
\* followed from fetch on, without Provider.Fetch, has the zero Options)
FormFields(o) ==
    LET set == o.type = "elevenlabs.Options"
        lang == IF set THEN o.LanguageCode ELSE ""
    IN [file |-> "audio", model_id |-> "scribe_v1", diarize |-> "true",
        tag_audio_events |-> IF set /\ o.TagAudioEvents THEN "true" ELSE "false"]
       @@ (IF lang # "" /\ lang # "auto" THEN [language_code |-> lang] ELSE <<>>)

\* client.Do(req) starts
elevenlabs_Send ==
    /\ At("elevenlabs", "http_request", "call")
    /\ DoSend("http_request", FormFields(opts))
    /\ UNCHANGED <<backend, cancelled, bijianLocals, jianyingLocals, observers,
                   regVars, restVars>>

\* client.Do(req) returns; status check, gzip, JSON decoding
elevenlabs_Recv ==
    /\ At("elevenlabs", "http_request", "wait")
    /\ \E r \in inflight,
          o \in HttpFailures(cancelled)
                \cup {JsonResp(b) : b \in TranscriptBodies}
                \cup {Gzipped(JsonResp(b)) : b \in TranscriptBodies}
                \cup {Gzipped(Resp(StatusOK, "corrupt", FALSE, JNull))} :
          /\ inflight' = inflight \ {r}
          /\ lastHTTP' = o
          /\ ReturnAt(elevenlabs_fetch(o).step, elevenlabs_fetch(o).res)
    /\ UNCHANGED <<backend, cancelled, reqCount, bijianLocals, jianyingLocals,
                   firstDone, cancelAt, regVars, restVars>>

----------------------------------------------------------------------------
(* Registry: a map of providers guarded by mu, a sync.RWMutex.  A blocked  *)
(* Lock keeps new readers out (pending), as sync.RWMutex documents.        *)

Procs == 1..NProcs
RegNames == {"bijian", "jianying"}
\* the providers a caller can register: two distinct values per name
Providers == {[name |-> n, inst |-> i] : n \in RegNames, i \in {"first", "second"}}

\* provider.Name()
Name(provider) == provider.name

NotFound == Msg("provider not found")
NoCall == [op |-> "-"]
NoRet == [ok |-> FALSE, val |-> <<>>, err |-> NoErr]

\* Register calls started and not yet stored, plus those stored
Registering == {p \in Procs : rop[p].op = "Register" /\ rpc[p] \in {"lock", "acquire", "write"}}

\* a goroutine calls Register, Get or List
Call(p) ==
    /\ rpc[p] = "idle"
    /\ \/ \E provider \in Providers :
             /\ Len(regLog) + Cardinality(Registering) < MaxRegs
             /\ rop' = [rop EXCEPT ![p] = [op |-> "Register", provider |-> provider]]
             /\ rpc' = [rpc EXCEPT ![p] = "lock"]
       \/ \E name \in RegNames :
             /\ rop' = [rop EXCEPT ![p] = [op |-> "Get", name |-> name]]
             /\ rpc' = [rpc EXCEPT ![p] = "rlock"]
       \/ /\ rop' = [rop EXCEPT ![p] = [op |-> "List"]]
          /\ rpc' = [rpc EXCEPT ![p] = "rlock"]
    /\ rret' = [rret EXCEPT ![p] = NoRet]
    /\ UNCHANGED <<mu, providers, regLog, fetchVars, restVars>>

\* mu.Lock() is entered: from now on no new reader gets in
Lock(p) ==
    /\ mu' = [mu EXCEPT !.pending = @ \cup {p}]
    /\ rpc' = [rpc EXCEPT ![p] = "acquire"]

\* mu.Lock() returns: no writer and no reader holds mu
LockAcquire(p) ==
    /\ mu.writer = 0
    /\ mu.readers = {}
    /\ mu' = [mu EXCEPT !.writer = p, !.pending = @ \ {p}]

\* mu.RLock() returns: no writer holds mu or waits for it
RLock(p) ==
    /\ mu.writer = 0
    /\ mu.pending = {}
    /\ mu' = [mu EXCEPT !.readers = @ \cup {p}]

\* (mutant) an existing entry is kept
Store_KeepFirst(m, provider) == m @@ (Name(provider) :> provider)

\* r.providers[provider.Name()] = provider
Store(m, provider) == (Name(provider) :> provider) @@ m

\* provider, ok := r.providers[name]
Lookup(m, name) == IF name \in DOMAIN m THEN [ok |-> TRUE, val |-> m[name], err |-> NoErr]
                   ELSE [ok |-> FALSE, val |-> <<>>, err |-> NotFound]

\* (mutant) the result may name a key more than once
Orders_Repeating(keys) == [1..Cardinality(keys) -> keys]

\* the orders in which ranging over the map can yield its keys
Orders(keys) == {s \in [1..Cardinality(keys) -> keys] :
                    \A i, j \in DOMAIN s : i # j => s[i] # s[j]}

\* (mutant) Register takes the read lock
Register_Lock_Shared(p) ==
    /\ rop[p].op = "Register"
    /\ rpc[p] = "lock"
    /\ RLock(p)
    /\ rpc' = [rpc EXCEPT ![p] = "write"]
    /\ UNCHANGED <<providers, rop, rret, regLog, fetchVars, restVars>>

\* Register: r.mu.Lock()
Register_Lock(p) ==
    /\ rop[p].op = "Register"
    /\ rpc[p] = "lock"
    /\ Lock(p)
    /\ UNCHANGED <<providers, rop, rret, regLog, fetchVars, restVars>>

Register_Acquire(p) ==
    /\ rop[p].op = "Register"
    /\ rpc[p] = "acquire"
    /\ LockAcquire(p)
    /\ rpc' = [rpc EXCEPT ![p] = "write"]
    /\ UNCHANGED <<providers, rop, rret, regLog, fetchVars, restVars>>

\* Register: the map write
Register_Write(p) ==
    /\ rop[p].op = "Register"
    /\ rpc[p] = "write"
    /\ providers' = Store(providers, rop[p].provider)
    /\ regLog' = Append(regLog, rop[p].provider)
    /\ rpc' = [rpc EXCEPT ![p] = "unlock"]
    /\ UNCHANGED <<mu, rop, rret, fetchVars, restVars>>

\* Register: the deferred r.mu.Unlock()
Register_Unlock(p) ==
    /\ rop[p].op = "Register"
    /\ rpc[p] = "unlock"
    /\ mu' = [mu EXCEPT !.writer = 0]
    /\ rpc' = [rpc EXCEPT ![p] = "idle"]
    /\ UNCHANGED <<providers, rop, rret, regLog, fetchVars, restVars>>

\* Get and List: r.mu.RLock()
Reader_RLock(p) ==
    /\ rop[p].op \in {"Get", "List"}
    /\ rpc[p] = "rlock"
    /\ RLock(p)
    /\ rpc' = [rpc EXCEPT ![p] = "read"]
    /\ UNCHANGED <<providers, rop, rret, regLog, fetchVars, restVars>>

\* Get: the map lookup
Get_Read(p) ==
    /\ rop[p].op = "Get"
    /\ rpc[p] = "read"
    /\ rret' = [rret EXCEPT ![p] = Lookup(providers, rop[p].name)]
    /\ rpc' = [rpc EXCEPT ![p] = "runlock"]
    /\ UNCHANGED <<mu, providers, rop, regLog, fetchVars, restVars>>

\* List: the range over the map
List_Read(p) ==
    /\ rop[p].op = "List"
    /\ rpc[p] = "read"
    /\ \E names \in Orders(DOMAIN providers) :
          rret' = [rret EXCEPT ![p] = [ok |-> TRUE, val |-> names, err |-> NoErr]]
    /\ rpc' = [rpc EXCEPT ![p] = "runlock"]
    /\ UNCHANGED <<mu, providers, rop, regLog, fetchVars, restVars>>

\* Get and List: the deferred r.mu.RUnlock()
Reader_RUnlock(p) ==
    /\ rop[p].op \in {"Get", "List"}
    /\ rpc[p] = "runlock"
    /\ mu' = [mu EXCEPT !.readers = @ \ {p}]
    /\ rpc' = [rpc EXCEPT ![p] = "idle"]
    /\ UNCHANGED <<providers, rop, rret, regLog, fetchVars, restVars>>

----------------------------------------------------------------------------
(* float64 arithmetic of the normalizers.  A JSON number with a fraction   *)
(* is kept as its count of thousandths; encoding/json decodes it to the    *)
(* nearest float64, and start * 1000 is rounded to the nearest float64     *)
(* again before int64() truncates it.  53-bit significands do not fit the  *)
(* model checker's integers: they are little-endian sequences of limbs.    *)

Limb == 2^15

BigOf(n) == IF n < Limb THEN <<n>> ELSE <<n % Limb, n \div Limb>>

\* a * k + carry, for k < Limb
RECURSIVE BigMul(_, _, _)
BigMul(a, k, carry) ==
    IF a = <<>> THEN (IF carry = 0 THEN <<>> ELSE <<carry>>)
    ELSE LET v == Head(a) * k + carry
         IN <<v % Limb>> \o BigMul(Tail(a), k, v \div Limb)

\* quotient and remainder of a / k, for k < Limb
RECURSIVE BigDiv(_, _)
BigDiv(a, k) ==
    IF a = <<>> THEN [q |-> <<>>, r |-> 0]
    ELSE LET hi == BigDiv(Tail(a), k)
             v == hi.r * Limb + Head(a)
         IN [q |-> <<v \div k>> \o hi.q, r |-> v % k]

BigIsZero(a) == \A i \in 1..Len(a) : a[i] = 0

RECURSIVE BigToInt(_)
BigToInt(a) == IF BigIsZero(a) THEN 0 ELSE Head(a) + Limb * BigToInt(Tail(a))

\* a * 2^n and floor(a / 2^n)
BigShl(a, n) == BigMul([i \in 1..(n \div 15) |-> 0] \o a, 2^(n % 15), 0)
BigShr(a, n) == BigDiv(SubSeq(a, (n \div 15) + 1, Len(a)), 2^(n % 15)).q

\* a / k rounded to nearest, ties to even: the rounding of every float64
\* operation
RoundEven(a, k) ==
    LET d == BigDiv(a, k)
        up == 2 * d.r > k \/ (2 * d.r = k /\ Head(d.q) % 2 = 1)
    IN IF up THEN BigMul(d.q, 1, 1) ELSE d.q

\* e with 2^e <= num/den < 2^(e+1)
RECURSIVE Binade(_, _)
Binade(num, den) == IF num >= 2 * den THEN Binade(num, 2 * den) + 1
                    ELSE IF num < den THEN Binade(2 * num, den) - 1
                    ELSE 0

\* int64(x * 1000) for the float64 x nearest to th/1000, th > 0
MulThousandPos(th) ==
    LET k == 52 - Binade(th, 1000)
        x == RoundEven(BigShl(BigOf(th), k), 1000)   \* x = significand * 2^-k
        p == BigMul(x, 1000, 0)                      \* the exact product
        s == IF BigIsZero(BigShr(p, 62)) THEN 9 ELSE 10
        y == RoundEven(p, 2^s)                       \* rounded to 53 bits
    IN BigToInt(BigShr(y, k - s))

\* int64(start * 1000): seconds to milliseconds, th the thousandths of start
SecondsToMillis(th) == IF th = 0 THEN 0
                       ELSE IF th < 0 THEN 0 - MulThousandPos(0 - th)
                       ELSE MulThousandPos(th)

----------------------------------------------------------------------------
(* The response normalizers: Provider.Parse and parse() of each backend.   *)

\* the opts argument is nil
NoOpts == [type |-> "nil"]

\* a JSON number with a fraction: th thousandths
JDec(th) == [t |-> "num", v |-> th, unit |-> "thousandths"]
\* the value of a float64 taken from JSON, in thousandths; 0 when the type
\* assertion v.(float64) fails
Thousandths(j) == IF ~IsNum(j) THEN 0
                  ELSE IF "unit" \in DOMAIN j THEN j.v
                  ELSE j.v * 1000
\* v, _ := m[key].(string)
StrOr(j) == IF IsStr(j) THEN j.v ELSE ""
\* int64(f): truncation toward zero
Int64(j) == LET th == Thousandths(j)
            IN IF th < 0 THEN 0 - ((0 - th) \div 1000) ELSE th \div 1000

ParseError(m) == [type |-> "ParseError", msg |-> m]
NoParse == [ok |-> FALSE, val |-> JNull, err |-> [type |-> "not called"]]

\* asr.Word, asr.Sentence (SpeakerID "" when not set) and asr.StandardResult
Timed(text, start, end, speaker) ==
    [Text |-> text, Start |-> start, End |-> end, SpeakerID |-> speaker]
StandardResult(text, words, sentences, lang) ==
    [Text |-> text, Words |-> words, Sentences |-> sentences, Language |-> lang]

\* the entries of a decoded array that are JSON objects, in order
Objects(j) == IF IsArr(j) THEN SelectSeq(j.v, IsObj) ELSE <<>>

\* strings.Join(parts, "")
RECURSIVE Concat(_)
Concat(parts) == IF parts = <<>> THEN "" ELSE Head(parts) \o Concat(Tail(parts))

\* append(result.Words, ...) over the utterances, in order
RECURSIVE Flatten(_)
Flatten(seqs) == IF seqs = <<>> THEN <<>> ELSE Head(seqs) \o Flatten(Tail(seqs))

\* elevenlabs parse: one entry of words
elevenlabs_word(w) ==
    Timed(StrOr(Field(w, "text")),
          SecondsToMillis(Thousandths(Field(w, "start"))),
          SecondsToMillis(Thousandths(Field(w, "end"))),
          StrOr(Field(w, "speaker_id")))

\* the check for an empty result is missing
elevenlabs_parse_NoCheck(response) ==
    LET objs == Objects(Field(response, "words"))
        words == [i \in 1..Len(objs) |-> elevenlabs_word(objs[i])]
    IN IF ~IsStr(Field(response, "text"))
       THEN Fail(ParseError("missing text field in response"))
       ELSE IF ~IsArr(Field(response, "words"))
       THEN Fail(ParseError("missing words field in response"))
       ELSE Ok(StandardResult(Field(response, "text").v, words, <<>>,
                              StrOr(Field(response, "language_code"))))

elevenlabs_parse(response) ==
    LET objs == Objects(Field(response, "words"))
        words == [i \in 1..Len(objs) |-> elevenlabs_word(objs[i])]
    IN IF ~IsStr(Field(response, "text"))
       THEN Fail(ParseError("missing text field in response"))
       ELSE IF ~IsArr(Field(response, "words"))
       THEN Fail(ParseError("missing words field in response"))
       ELSE IF Len(words) = 0
       THEN Fail(ParseError("no words found in response"))
       ELSE Ok(StandardResult(Field(response, "text").v, words, <<>>,
                              StrOr(Field(response, "language_code"))))

\* bijian parse: the words of one utterance
bijian_words(utt) ==
    LET objs == Objects(Field(utt, "words"))
    IN [i \in 1..Len(objs) |->
           Timed(StrOr(Field(objs[i], "label")),
                 Int64(Field(objs[i], "start_time")),
                 Int64(Field(objs[i], "end_time")), "")]

bijian_sentence(utt) ==
    Timed(StrOr(Field(utt, "transcript")), Int64(Field(utt, "start_time")),
          Int64(Field(utt, "end_time")), "")

\* (mutant) a sentence is kept for every utterance
bijian_parse_AllSentences(response) ==
    LET utts == Objects(Field(response, "utterances"))
        said == SelectSeq(utts, LAMBDA u : StrOr(Field(u, "transcript")) # "")
        words == Flatten([i \in 1..Len(utts) |-> bijian_words(utts[i])])
    IN IF ~IsArr(Field(response, "utterances"))
       THEN Fail(ParseError("missing utterances field in response"))
       ELSE IF Len(words) = 0
       THEN Fail(ParseError("no words found in response"))
       ELSE Ok(StandardResult(
                 Concat([i \in 1..Len(said) |-> Field(said[i], "transcript").v]),
                 words,
                 [i \in 1..Len(utts) |-> bijian_sentence(utts[i])], ""))

bijian_parse(response) ==
    LET utts == Objects(Field(response, "utterances"))
        said == SelectSeq(utts, LAMBDA u : StrOr(Field(u, "transcript")) # "")
        words == Flatten([i \in 1..Len(utts) |-> bijian_words(utts[i])])
    IN IF ~IsArr(Field(response, "utterances"))
       THEN Fail(ParseError("missing utterances field in response"))
       ELSE IF Len(words) = 0
       THEN Fail(ParseError("no words found in response"))
       ELSE Ok(StandardResult(
                 Concat([i \in 1..Len(said) |-> Field(said[i], "transcript").v]),
                 words,
                 [i \in 1..Len(said) |-> bijian_sentence(said[i])], ""))

\* jianying parse: attribute.speaker of an utterance or a word
jianying_speaker(e) == StrOr(Field(Field(e, "attribute"), "speaker"))

jianying_words(utt) ==
    LET objs == Objects(Field(utt, "words"))
    IN [i \in 1..Len(objs) |->
           Timed(StrOr(Field(objs[i], "text")),
                 Int64(Field(objs[i], "start_time")),
                 Int64(Field(objs[i], "end_time")),
                 jianying_speaker(objs[i]))]

jianying_sentence(utt) ==
    Timed(StrOr(Field(utt, "text")), Int64(Field(utt, "start_time")),
          Int64(Field(utt, "end_time")), jianying_speaker(utt))

\* (mutant) a response without data is read as one without utterances
jianying_parse_Lenient(response) ==
    LET data == Field(response, "data")
        utts == Objects(Field(data, "utterances"))
        said == SelectSeq(utts, LAMBDA u : StrOr(Field(u, "text")) # "")
        words == Flatten([i \in 1..Len(utts) |-> jianying_words(utts[i])])
        lang == StrOr(Field(Field(Field(data, "attribute"), "extra"), "language"))
    IN IF Len(words) = 0
       THEN Fail(ParseError("no words found in response"))
       ELSE Ok(StandardResult(
                 Concat([i \in 1..Len(said) |-> Field(said[i], "text").v]),
                 words,
                 [i \in 1..Len(said) |-> jianying_sentence(said[i])], lang))

jianying_parse(response) ==
    LET data == Field(response, "data")
        utts == Objects(Field(data, "utterances"))
        said == SelectSeq(utts, LAMBDA u : StrOr(Field(u, "text")) # "")
        words == Flatten([i \in 1..Len(utts) |-> jianying_words(utts[i])])
        lang == StrOr(Field(Field(Field(data, "attribute"), "extra"), "language"))
    IN IF ~IsObj(data)
       THEN Fail(ParseError("missing data field in response"))
       ELSE IF ~IsArr(Field(data, "utterances"))
       THEN Fail(ParseError("missing utterances field in data"))
       ELSE IF Len(words) = 0
       THEN Fail(ParseError("no words found in response"))
       ELSE Ok(StandardResult(
                 Concat([i \in 1..Len(said) |-> Field(said[i], "text").v]),
                 words,
                 [i \in 1..Len(said) |-> jianying_sentence(said[i])], lang))

\* Provider.Parse: raw.(map[string]interface{}), then parse
InvalidRaw == ParseError("invalid raw result type, expected map[string]interface{}")
bijian_Provider_Parse(raw) ==
    IF ~IsObj(raw) THEN Fail(InvalidRaw) ELSE bijian_parse(raw)
jianying_Provider_Parse(raw) ==
    IF ~IsObj(raw) THEN Fail(InvalidRaw) ELSE jianying_parse(raw)
elevenlabs_Provider_Parse(raw) ==
    IF ~IsObj(raw) THEN Fail(InvalidRaw) ELSE elevenlabs_parse(raw)

\* Raw responses handed to Parse.  Times are chosen to cover exact and
\* inexact float64 conversions, inverted and negative ranges.
SeqsUpTo(S, n) == UNION {[1..k -> S] : k \in 0..n}

ElevenlabsEntries ==
    { JObj([text |-> JStr("hi"), start |-> JNum(0), end |-> JDec(400),
            speaker_id |-> JStr("A")]),
      JObj([text |-> JStr("there"), start |-> JDec(400), end |-> JDec(900)]),
      JObj([text |-> JStr("now"), start |-> JDec(1001), end |-> JDec(1500),
            speaker_id |-> JStr("")]),
      JObj([text |-> JStr("back"), start |-> JNum(2), end |-> JNum(1)]),
      JObj([start |-> JDec(0 - 500), end |-> JStr("late")]),
      JStr("noise") }

ElevenlabsResponses ==
    UNION { { JObj([text |-> JStr("hi there"), words |-> JArr(ws),
                    language_code |-> JStr("en")]),
              JObj([text |-> JStr("hi there"), words |-> JArr(ws)]),
              JObj([words |-> JArr(ws)]) }
            : ws \in SeqsUpTo(ElevenlabsEntries, MaxWords) }
    \cup { JObj([text |-> JStr("hi there")]), JStr("raw"),
           JObj([text |-> JNum(1), words |-> JArr(<<>>)]),
           JObj([text |-> JStr("hi there"), words |-> JStr("none")]) }

BijianWordLists ==
    { JArr(<<JObj([label |-> JStr("a"), start_time |-> JNum(0), end_time |-> JNum(200)]),
             JObj([label |-> JStr("b"), start_time |-> JNum(200), end_time |-> JDec(500700)])>>),
      JArr(<<JObj([label |-> JStr("c"), start_time |-> JNum(300), end_time |-> JNum(100)])>>),
      JArr(<<JObj([label |-> JStr("d"), start_time |-> JNum(0 - 40), end_time |-> JNum(10)])>>),
      JArr(<<JNum(7)>>),
      JArr(<<>>) }

BijianUtterances ==
    { JObj([transcript |-> JStr("ab"), start_time |-> JNum(0),
            end_time |-> JNum(500), words |-> w]) : w \in BijianWordLists }
    \cup { JObj([transcript |-> JStr("cd"), start_time |-> JNum(500),
                 end_time |-> JNum(900)]),
           JObj([words |-> JArr(<<JObj([label |-> JStr("e")])>>)]),
           JStr("noise") }

BijianResponses ==
    { JObj([utterances |-> JArr(us)]) : us \in SeqsUpTo(BijianUtterances, MaxWords) }
    \cup { EmptyObj, JNull, JObj([utterances |-> EmptyObj]) }

Spoken(s) == JObj([speaker |-> JStr(s)])

JianyingWordLists ==
    { JArr(<<JObj([text |-> JStr("a"), start_time |-> JNum(0), end_time |-> JNum(200),
                   attribute |-> Spoken("1")]),
             JObj([text |-> JStr("b"), start_time |-> JNum(200), end_time |-> JNum(500)])>>),
      JArr(<<JObj([text |-> JStr("c"), start_time |-> JNum(300), end_time |-> JNum(100),
                   attribute |-> Spoken("")])>>),
      JArr(<<JStr("x")>>) }

JianyingUtterances ==
    { JObj([text |-> JStr("ab"), start_time |-> JNum(0), end_time |-> JNum(500),
            attribute |-> Spoken("1"), words |-> w]) : w \in JianyingWordLists }
    \cup { JObj([text |-> JStr("cd"), start_time |-> JNum(500),
                 end_time |-> JNum(900)]),
           JNum(1) }

JianyingResponses ==
    UNION { { JObj([data |-> JObj([utterances |-> JArr(us)])]),
              JObj([data |-> JObj([utterances |-> JArr(us),
                     attribute |-> JObj([extra |-> JObj([language |-> JStr("zh-CN")])])])]) }
            : us \in SeqsUpTo(JianyingUtterances, MaxWords) }
    \cup { JObj([data |-> EmptyObj]), EmptyObj, JArr(<<>>),
           JObj([data |-> JStr("none")]),
           JObj([data |-> JObj([utterances |-> JNum(0)])]) }

ParseCall(provider, raw) == [provider |-> provider, raw |-> raw]
NoParseCall == ParseCall("-", JNull)

\* Provider.Parse is called once on a raw response
bijian_Parse ==
    /\ praw.provider = "bijian" /\ pout = NoParse
    /\ pout' = bijian_Provider_Parse(praw.raw)
    /\ UNCHANGED <<praw, notParse>>

jianying_Parse ==
    /\ praw.provider = "jianying" /\ pout = NoParse
    /\ pout' = jianying_Provider_Parse(praw.raw)
    /\ UNCHANGED <<praw, notParse>>

elevenlabs_Parse ==
    /\ praw.provider = "elevenlabs" /\ pout = NoParse
    /\ pout' = elevenlabs_Provider_Parse(praw.raw)
    /\ UNCHANGED <<praw, notParse>>

----------------------------------------------------------------------------
(* Provider.Fetch: the options are converted and validated, then fetch()   *)
(* runs.  Option times are float64 values, NaN included: every comparison  *)
(* with NaN is false.                                                      *)

F(n) == [nan |-> FALSE, v |-> n]
NaN == [nan |-> TRUE, v |-> 0]
FEq(a, b) == ~a.nan /\ ~b.nan /\ a.v = b.v
FLt(a, b) == ~a.nan /\ ~b.nan /\ a.v < b.v
FGe(a, b) == ~a.nan /\ ~b.nan /\ a.v >= b.v

\* jianying Validate: EndTime: 6000 seconds if not specified or zero
DefaultEndTime == 6000

ValidationError(field) == [type |-> "ValidationError", Field |-> field]

\* *Options of each provider
BijianOptions(cookie) == [type |-> "bijian.Options", Cookie |-> cookie]
JianyingOptions(start, end) ==
    [type |-> "jianying.Options", StartTime |-> start, EndTime |-> end]
ElevenlabsOptions(lang, tag) ==
    [type |-> "elevenlabs.Options", LanguageCode |-> lang, TagAudioEvents |-> tag]

\* opts.(*Options), the zero Options when the assertion fails or opts is nil
OptionsOf(b, o) ==
    IF o.type = b \o ".Options" THEN o
    ELSE IF b = "bijian" THEN BijianOptions("")
    ELSE IF b = "jianying" THEN JianyingOptions(F(0), F(0))
    ELSE ElevenlabsOptions("", FALSE)

\* Validate returns the options as it leaves them and its error
Validated(o, e) == [opts |-> o, err |-> e]

bijian_Validate(o) == Validated(o, NoErr)

elevenlabs_Validate(o) ==
    Validated(IF o.LanguageCode = "" THEN [o EXCEPT !.LanguageCode = "auto"] ELSE o,
              NoErr)


\* Validate that takes EndTime for a length and adds StartTime to it
jianying_Validate_Relative(o) ==
    LET d == [o EXCEPT !.EndTime = IF o.EndTime.nan \/ o.StartTime.nan THEN NaN
                                   ELSE F(o.StartTime.v + o.EndTime.v)]
    IN Validated(d, IF FLt(d.StartTime, F(0)) THEN ValidationError("StartTime")
                    ELSE IF FLt(d.EndTime, F(0)) THEN ValidationError("EndTime")
                    ELSE IF FGe(d.StartTime, d.EndTime)
                    THEN ValidationError("StartTime/EndTime")
                    ELSE NoErr)

jianying_Validate(o) ==
    LET d == IF FEq(o.EndTime, F(0)) THEN [o EXCEPT !.EndTime = F(DefaultEndTime)]
             ELSE o
    IN Validated(d, IF FLt(d.StartTime, F(0)) THEN ValidationError("StartTime")
                    ELSE IF FLt(d.EndTime, F(0)) THEN ValidationError("EndTime")
                    ELSE IF FGe(d.StartTime, d.EndTime)
                    THEN ValidationError("StartTime/EndTime")
                    ELSE NoErr)

\* the opts arguments a caller passes
OptionTimes == {F(0 - 1), F(0), F(5), F(10), NaN}
OptionArgs(b) ==
    IF b = "bijian" THEN {NoOpts, BijianOptions("c")}
    ELSE IF b = "jianying"
    THEN {NoOpts, BijianOptions("c")}
         \cup {JianyingOptions(s, e) : s, e \in OptionTimes}
    ELSE {NoOpts, BijianOptions("c"), ElevenlabsOptions("", TRUE),
          ElevenlabsOptions("en", FALSE), ElevenlabsOptions("auto", FALSE),
          ElevenlabsOptions("zh", TRUE)}

\* Provider.Fetch up to the call of fetch: return Validate's error, or go on
Enter(b, v) ==
    /\ opts' = v.opts
    /\ IF v.err # NoErr THEN Return(Fail(v.err))
       ELSE Goto(Steps(b)[1], "call")
    /\ UNCHANGED <<backend, cancelled, inflight, reqCount, bijianLocals,
                   jianyingLocals, observers, optsIn, notOpts>>

bijian_Fetch ==
    /\ At("bijian", "validate", "call")
    /\ Enter("bijian", bijian_Validate(OptionsOf("bijian", optsIn)))

\* (mutant) fetch is called whatever Validate returned
jianying_Fetch_Unchecked ==
    /\ At("jianying", "validate", "call")
    /\ Enter("jianying",
             Validated(jianying_Validate(OptionsOf("jianying", optsIn)).opts, NoErr))

jianying_Fetch ==
    /\ At("jianying", "validate", "call")
    /\ Enter("jianying", jianying_Validate(OptionsOf("jianying", optsIn)))

elevenlabs_Fetch ==
    /\ At("elevenlabs", "validate", "call")
    /\ Enter("elevenlabs", elevenlabs_Validate(OptionsOf("elevenlabs", optsIn)))

----------------------------------------------------------------------------
(* Transcribe: Get, then provider.Fetch, then provider.Parse.  Fetch is a  *)
(* call through the Provider interface: it returns a raw response or an    *)
(* error.                                                                  *)

NoProvider == [name |-> "-", inst |-> "-"]
NoCalls == [fetch |-> 0, parse |-> 0, parsed |-> JNull]

\* the registry after the Register calls of log
RECURSIVE StoreAll(_)
StoreAll(log) == IF log = <<>> THEN <<>>
                 ELSE Store(StoreAll(SubSeq(log, 1, Len(log) - 1)), log[Len(log)])

\* what provider.Fetch can return
FetchReturns(provider) ==
    {Ok(r) : r \in IF Name(provider) = "bijian" THEN BijianResponses
                   ELSE JianyingResponses}
    \cup {Fail(FetchError("read_file", FsErr)),
          Fail(FetchError("create_task", APIError(500, "denied"))),
          Fail(ValidationError("StartTime"))}

\* provider.Parse(raw)
ParseBy(provider, raw) ==
    IF Name(provider) = "bijian" THEN bijian_Provider_Parse(raw)
    ELSE jianying_Provider_Parse(raw)

\* Transcribe returns
TReturn(res) == tres' = res /\ tpc' = "done"

\* provider, err := Get(providerName)
Transcribe_Get ==
    /\ tpc = "get"
    /\ LET got == Lookup(providers, tname)
       IN IF ~got.ok THEN TReturn(Fail(got.err)) /\ tprov' = tprov
          ELSE tprov' = got.val /\ tpc' = "fetch" /\ tres' = tres
    /\ UNCHANGED <<tname, traw, tcalls, notTranscribe>>

\* (mutant) Parse is called on whatever Fetch returned, its error dropped
Transcribe_Fetch_Unchecked ==
    /\ tpc = "fetch"
    /\ \E out \in FetchReturns(tprov) :
          /\ traw' = out
          /\ tcalls' = [tcalls EXCEPT !.fetch = @ + 1]
          /\ tpc' = "parse" /\ tres' = tres
    /\ UNCHANGED <<tname, tprov, notTranscribe>>

\* raw, err := provider.Fetch(ctx, audioPath, opts)
Transcribe_Fetch ==
    /\ tpc = "fetch"
    /\ \E out \in FetchReturns(tprov) :
          /\ traw' = out
          /\ tcalls' = [tcalls EXCEPT !.fetch = @ + 1]
          /\ IF ~out.ok THEN TReturn(Fail(Wrap("fetch failed", out.err)))
             ELSE tpc' = "parse" /\ tres' = tres
    /\ UNCHANGED <<tname, tprov, notTranscribe>>

\* result, err := provider.Parse(raw)
Transcribe_Parse ==
    /\ tpc = "parse"
    /\ LET out == ParseBy(tprov, traw.val)
       IN /\ tcalls' = [tcalls EXCEPT !.parse = @ + 1, !.parsed = traw.val]
          /\ IF ~out.ok THEN TReturn(Fail(Wrap("parse failed", out.err)))
             ELSE TReturn(Ok(out.val))
    /\ UNCHANGED <<tname, tprov, traw, notTranscribe>>

----------------------------------------------------------------------------
(* Concurrent Fetch calls.  Each call runs its backend's network steps in  *)
(* its own frame: the values taken from a step's response are kept in the  *)
(* locals of fetch (bijian) or in the uploadContext fetch allocates        *)
(* (jianying), and later requests are built from them.                     *)

Calls == 1..NCalls

NetSteps(b) == IF b = "bijian" THEN SubSeq(BijianSteps, 2, 6)
               ELSE IF b = "jianying" THEN SubSeq(JianyingSteps, 2, 8)
               ELSE <<"http_request">>

\* the session fields a step's request is built from
Carries(step) ==
    CASE step = "upload_parts" -> {"upload_urls"}
      [] step = "commit_upload" -> {"in_boss_key", "resource_id", "upload_id", "etags"}
      [] step = "create_task" -> {"download_url"}
      [] step = "poll_result" -> {"task_id"}
      [] step = "upload_auth" -> {"accessKey", "secretKey", "sessionToken"}
      [] step \in {"upload_file", "upload_check"} ->
             {"uploadHost", "storeURI", "uploadID", "auth"}
      [] step = "upload_commit" ->
             {"uploadHost", "storeURI", "uploadID", "auth", "sessionToken"}
      [] step = "submit_task" -> {"storeURI"}
      [] step = "query_result" -> {"queryID"}
      [] OTHER -> {}

\* the session fields a step stores from its response
Yields(step) ==
    CASE step = "request_upload" ->
             {"upload_urls", "in_boss_key", "resource_id", "upload_id"}
      [] step = "upload_parts" -> {"etags"}
      [] step = "commit_upload" -> {"download_url"}
      [] step = "create_task" -> {"task_id"}
      [] step = "upload_sign" -> {"accessKey", "secretKey", "sessionToken"}
      [] step = "upload_auth" ->
             {"storeURI", "auth", "uploadID", "sessionKey", "uploadHost"}
      [] step = "submit_task" -> {"queryID"}
      [] OTHER -> {}

\* a value the remote side returned to call c
Returned_To(c, field) == [field |-> field, to |-> c]

\* (mutant) the session is kept in one package-level variable
frameOf_Shared(c) == 1

\* the frame holding the session of call c: its own
frameOf(c) == c

Running(c) == cat[c] <= Len(NetSteps(cback[c]))
StepOf(c) == NetSteps(cback[c])[cat[c]]

\* call c issues the request of its current step
Conc_Send(c) ==
    /\ Running(c) /\ ~cwait[c]
    /\ cwait' = [cwait EXCEPT ![c] = TRUE]
    /\ clog' = clog \cup
         {[call |-> c, step |-> StepOf(c),
           carries |-> {csess[frameOf(c)][f] :
                          f \in Carries(StepOf(c)) \cap DOMAIN csess[frameOf(c)]}]}
    /\ UNCHANGED <<cback, cat, csess, notConc>>

\* the step succeeds: its values are stored and the call moves on (a poll
\* may also have to be repeated); after the last step fetch returns and its
\* frame is gone
Conc_Recv(c) ==
    /\ Running(c) /\ cwait[c]
    /\ cwait' = [cwait EXCEPT ![c] = FALSE]
    /\ \/ /\ cat[c] < Len(NetSteps(cback[c]))
          /\ cat' = [cat EXCEPT ![c] = @ + 1]
          /\ csess' = [csess EXCEPT ![frameOf(c)] =
                          [f \in Yields(StepOf(c)) |-> Returned_To(c, f)] @@ @]
       \/ /\ StepOf(c) = "poll_result"
          /\ UNCHANGED <<cat, csess>>
       \/ /\ cat[c] = Len(NetSteps(cback[c]))
          /\ cat' = [cat EXCEPT ![c] = @ + 1]
          /\ csess' = [csess EXCEPT ![frameOf(c)] = <<>>]
    /\ UNCHANGED <<cback, clog, notConc>>

\* the step fails: fetch returns its FetchError
Conc_Fail(c) ==
    /\ Running(c) /\ cwait[c]
    /\ cwait' = [cwait EXCEPT ![c] = FALSE]
    /\ cat' = [cat EXCEPT ![c] = Len(NetSteps(cback[c])) + 1]
    /\ csess' = [csess EXCEPT ![frameOf(c)] = <<>>]
    /\ UNCHANGED <<cback, clog, notConc>>

----------------------------------------------------------------------------
(* Resources of one Fetch call: the audio file handle (elevenlabs; the     *)
(* other backends use os.ReadFile) and the body of every response.  Each   *)
(* function that calls client.Do has the shape                             *)
(*     resp, err := client.Do(req); if err != nil { return ... }           *)
(*     defer resp.Body.Close(); ... return                                 *)
(* and a return runs the deferred calls of its frame.                      *)

\* the functions of a backend that call client.Do
HttpFunctions(b) ==
    IF b = "bijian" THEN {"doRequest", "uploadPart", "queryResult"}
    ELSE IF b = "jianying"
    THEN {"doRequest", "getUploadAuth", "uploadFile", "uploadCheck", "uploadCommit"}
    ELSE {"fetch"}

NoFrame == [fn |-> "-", pos |-> "-", deferred |-> <<>>]
\* acquired counts every body obtained and handle opened so far
NothingHeld == [bodies |-> 0, files |-> 0, acquired |-> 0]
\* how a call can leave Fetch
ExitPaths == {"success", "failure", "cancellation"}

\* the deferred calls of a frame run, last registered first
RECURSIVE Unwind(_, _)
Unwind(deferred, h) ==
    IF deferred = <<>> THEN h
    ELSE Unwind(Tail(deferred),
                IF Head(deferred) = "body" THEN [h EXCEPT !.bodies = @ - 1]
                ELSE [h EXCEPT !.files = @ - 1])

\* Fetch returns, running what the returning frame has deferred
Exit(deferred, how) ==
    /\ held' = Unwind(deferred, held)
    /\ frame' = NoFrame
    /\ rexit' = how

\* elevenlabs fetch: os.Stat and os.Open(audioPath)
Res_OpenFile ==
    /\ rsb = "elevenlabs" /\ rexit = "running" /\ frame = NoFrame
    /\ \E opened \in BOOLEAN :
          IF opened
          THEN /\ held' = [held EXCEPT !.files = @ + 1, !.acquired = @ + 1]
               /\ frame' = [fn |-> "fetch", pos |-> "defer file", deferred |-> <<>>]
               /\ rexit' = rexit
          ELSE Exit(<<>>, "failure")
    /\ UNCHANGED <<rsb, rcalls, notRes>>

\* elevenlabs fetch: defer file.Close(), then the multipart form and the
\* request are built, which may fail
Res_DeferFile ==
    /\ frame.pos = "defer file"
    /\ \E built \in BOOLEAN :
          IF built
          THEN /\ frame' = [frame EXCEPT !.pos = "do", !.deferred = <<"file">>]
               /\ UNCHANGED <<held, rexit>>
          ELSE Exit(<<"file">>, "failure")
    /\ UNCHANGED <<rsb, rcalls, notRes>>

\* bijian and jianying fetch call the next function that does a request,
\* or return between two calls: the workflow is complete, a step failed
\* before its request, or the poll loop saw ctx.Done
Res_Call ==
    /\ rsb # "elevenlabs" /\ rexit = "running" /\ frame = NoFrame
    /\ \/ /\ rcalls < MaxCalls
          /\ \E fn \in HttpFunctions(rsb) :
                frame' = [fn |-> fn, pos |-> "do", deferred |-> <<>>]
          /\ UNCHANGED <<held, rexit>>
       \/ \E how \in ExitPaths :
             /\ how = "success" => rcalls > 0
             /\ how = "cancellation" => rsb = "bijian"
             /\ Exit(<<>>, how)
    /\ UNCHANGED <<rsb, rcalls, notRes>>

\* client.Do returns an error (ctx cancelled, network) and no body, or a
\* response whose body is open
Res_Do ==
    /\ frame.pos = "do"
    /\ \/ \E how \in {"failure", "cancellation"} : Exit(frame.deferred, how)
       \/ /\ held' = [held EXCEPT !.bodies = @ + 1, !.acquired = @ + 1]
          /\ frame' = [frame EXCEPT !.pos = "defer body"]
          /\ rexit' = rexit
    /\ UNCHANGED <<rsb, rcalls, notRes>>

\* (mutant) the close of the body is not deferred
Res_DeferBody_Skipped ==
    /\ frame.pos = "defer body"
    /\ frame' = [frame EXCEPT !.pos = "rest"]
    /\ UNCHANGED <<held, rexit, rsb, rcalls, notRes>>

\* defer resp.Body.Close()
Res_DeferBody ==
    /\ frame.pos = "defer body"
    /\ frame' = [frame EXCEPT !.pos = "rest", !.deferred = <<"body">> \o @]
    /\ UNCHANGED <<held, rexit, rsb, rcalls, notRes>>

\* the rest of the function: status check, reading and decoding the body.
\* The function returns; on an error, and in elevenlabs always, so does
\* Fetch.
Res_Rest ==
    /\ frame.pos = "rest"
    /\ \E failed \in BOOLEAN :
          IF failed THEN Exit(frame.deferred, "failure") /\ rcalls' = rcalls
          ELSE IF rsb = "elevenlabs"
          THEN Exit(frame.deferred, "success") /\ rcalls' = rcalls + 1
          ELSE /\ held' = Unwind(frame.deferred, held)
               /\ frame' = NoFrame
               /\ rcalls' = rcalls + 1
               /\ rexit' = rexit
    /\ UNCHANGED <<rsb, notRes>>


----------------------------------------------------------------------------
(* Helper functions followed on their own: fnCall holds the function and   *)
(* its arguments, fnRet what the call did.                                 *)

NoFn == [fn |-> "-"]
NoRun == [done |-> FALSE]

\* bijian uploadParts on audio data and an upload authorization with n
\* upload URLs and per_size p.  Iteration i computes
\*     start := i * int(perSize); end := (i + 1) * int(perSize)
\*     if end > len(audioData) { end = len(audioData) }
\* and PUTs audioData[start:end]; the slice expression panics unless
\* 0 <= start <= end <= cap.  puts is the sequence of PUT bodies so far.
RECURSIVE uploadParts(_, _, _, _, _)
uploadParts(audioData, n, p, i, puts) ==
    IF i >= n THEN [done |-> TRUE, panic |-> FALSE, puts |-> puts]
    ELSE LET start == i * p
             e == (i + 1) * p
             end == IF e > Len(audioData) THEN Len(audioData) ELSE e
         IN  IF start < 0 \/ end < 0 \/ start > end
             THEN [done |-> TRUE, panic |-> TRUE, puts |-> puts]
             ELSE uploadParts(audioData, n, p, i + 1,
                              Append(puts, SubSeq(audioData, start + 1, end)))

\* audio data: byte k of the file is written k, so that a byte uploaded
\* twice or left out shows
AudioData == {[k \in 1..len |-> k] : len \in 0..MaxAudio}
UploadPartsCalls ==
    {[fn |-> "uploadParts", audioData |-> a, urls |-> n, per_size |-> p] :
        a \in AudioData, n \in 0..MaxParts, p \in (0 - 1)..MaxPerSize}

bijian_uploadParts ==
    /\ fnCall.fn = "uploadParts" /\ fnRet = NoRun
    /\ fnRet' = uploadParts(fnCall.audioData, fnCall.urls, fnCall.per_size, 0, <<>>)
    /\ UNCHANGED <<fnCall, notFn>>


----------------------------------------------------------------------------
(* jianying generateTDID and getTDIDMAC.  Hardware addresses are byte      *)
(* sequences; macInt is a uint64, kept as limbs.                           *)

DigitChar(d) == SubSeq("0123456789", d + 1, d + 1)
\* fmt's %d of an unsigned number
RECURSIVE Decimal(_)
Decimal(a) == IF BigIsZero(a) THEN ""
              ELSE Decimal(BigDiv(a, 10).q) \o DigitChar(BigDiv(a, 10).r)
DecimalString(a) == IF BigIsZero(a) THEN "0" ELSE Decimal(a)
\* the width of %013d: zeros are put in front of a shorter string, a longer
\* one is left as it is
RECURSIVE ZeroPad(_, _)
ZeroPad(s, width) == IF Len(s) >= width THEN s ELSE ZeroPad("0" \o s, width)

\* the low 64 bits: four limbs and four bits of the fifth
Uint64(a) == [i \in 1..(IF Len(a) > 5 THEN 5 ELSE Len(a)) |->
                 IF i = 5 THEN a[i] % 16 ELSE a[i]]
\* for _, b := range hw { macInt = (macInt << 8) | uint64(b) }
RECURSIVE MacInt(_, _)
MacInt(hw, macInt) ==
    IF hw = <<>> THEN macInt
    ELSE MacInt(Tail(hw), Uint64(BigMul(macInt, 256, Head(hw))))

\* getTDIDMAC: the first interface with an address whose macInt is not 0
RECURSIVE getTDIDMAC(_)
getTDIDMAC(ifaces) ==
    IF ifaces = <<>> THEN ""
    ELSE IF Len(Head(ifaces)) = 0 \/ BigIsZero(MacInt(Head(ifaces), <<>>))
    THEN getTDIDMAC(Tail(ifaces))
    ELSE ZeroPad(DecimalString(MacInt(Head(ifaces), <<>>)), 13)

\* generateTDID in the given year; mac is what getTDIDMAC returned
generateTDID(year, mac) ==
    LET yearLastDigit == year % 10
        fr == 390 + yearLastDigit
        ed == IF yearLastDigit % 2 # 0 THEN "3278516897751"
              ELSE IF mac # "" THEN mac ELSE "1234567890123"
    IN DecimalString(BigOf(fr)) \o ed

\* hardware addresses: none (loopback), all zero, three Ethernet addresses
\* of growing size and a 20-byte IP-over-InfiniBand address
HardwareAddrs ==
    { <<>>, <<0, 0, 0, 0, 0, 0>>, <<0, 1, 2, 3, 4, 5>>, <<2, 66, 172, 17, 0, 2>>,
      <<244, 92, 137, 1, 2, 3>>,
      <<128, 0, 2, 8, 254, 128, 0, 0, 0, 0, 0, 0, 0, 0, 0, 0, 0, 0, 0, 7>> }
Years == 2024..2027
TdidCalls ==
    {[fn |-> "generateTDID", year |-> y, ifaces |-> l, err |-> e] :
        y \in Years, l \in SeqsUpTo(HardwareAddrs, MaxIfaces), e \in BOOLEAN}

\* generateTDID is called; net.Interfaces fails (err) or lists the interfaces
jianying_generateTDID ==
    /\ fnCall.fn = "generateTDID" /\ fnRet = NoRun
    /\ fnRet' = [done |-> TRUE,
                 tdid |-> generateTDID(fnCall.year,
                                       IF fnCall.err THEN ""
                                       ELSE getTDIDMAC(fnCall.ifaces))]
    /\ UNCHANGED <<fnCall, notFn>>


----------------------------------------------------------------------------
(* The signed requests of one jianying fetch: getUploadSign, submitTask    *)
(* and queryTask each call generateSign and buildHeaders and send the      *)
(* headers with doRequest.  The clock runs on between the calls.           *)

apiBaseURL == "https://lv-pc-api-sinfonlinec.ulikecam.com"

\* a digest, written as what was hashed
md5Hash(data) == "md5(" \o data \o ")"

\* the last 7 characters of the pathname, all of it when it is shorter
Last7(pathname) == IF Len(pathname) >= 7
                   THEN SubSeq(pathname, Len(pathname) - 6, Len(pathname))
                   ELSE pathname

\* fmt.Sprintf("9e2c|%s|%s|%s|%s|%s|11ac", v, pf, appVersion, deviceTime, tdid)
SignString(v, deviceTime, id) ==
    "9e2c|" \o v \o "|4|6.6.0|" \o deviceTime \o "|" \o id \o "|11ac"

\* (mutant) the whole pathname is hashed
generateSign_WholePath(url, id, now) ==
    LET deviceTime == DecimalString(BigOf(now))
    IN [sign |-> md5Hash(SignString(url, deviceTime, id)), deviceTime |-> deviceTime]

\* generateSign(url, tdid) at time now: sign and deviceTime
generateSign(url, id, now) ==
    LET deviceTime == DecimalString(BigOf(now))
    IN [sign |-> md5Hash(SignString(Last7(url), deviceTime, id)),
        deviceTime |-> deviceTime]

buildHeaders(sign, deviceTime, id) ==
    ("User-Agent" :> "Cronet/TTNetVersion:d4572e53 2024-06-12 QuicVersion:4bf243e0 2023-04-17")
    @@ ("appvr" :> "6.6.0") @@ ("device-time" :> deviceTime) @@ ("pf" :> "4")
    @@ ("sign" :> sign) @@ ("sign-ver" :> "1") @@ ("tdid" :> id)

\* the functions that sign, in the order fetch calls them, with the URL each
\* sends its request to and the pathname it hands to generateSign
SignedCalls ==
    << [fn |-> "getUploadSign", url |-> apiBaseURL \o "/lv/v1/upload_sign",
        pathname |-> "/lv/v1/upload_sign"],
       [fn |-> "submitTask", url |-> apiBaseURL \o "/lv/v1/audio_subtitle/submit",
        pathname |-> "/lv/v1/audio_subtitle/submit"],
       [fn |-> "queryTask", url |-> apiBaseURL \o "/lv/v1/audio_subtitle/query",
        pathname |-> "/lv/v1/audio_subtitle/query"] >>

\* the identifiers generateTDID can return
Tdids == {generateTDID(c.year, IF c.err THEN "" ELSE getTDIDMAC(c.ifaces)) : c \in TdidCalls}

\* fetch: tdid := generateTDID()
jianying_fetch_tdid ==
    /\ tdid = ""
    /\ tdid' \in Tdids
    /\ UNCHANGED <<clock, signed, notSign>>

\* a second passes
Tick ==
    /\ clock < MaxClock
    /\ clock' = clock + 1
    /\ UNCHANGED <<tdid, signed, notSign>>

\* the next signing function runs up to its doRequest
jianying_SignedSend ==
    /\ tdid # "" /\ Len(signed) < Len(SignedCalls)
    /\ LET call == SignedCalls[Len(signed) + 1]
           s == generateSign(call.pathname, tdid, clock)
       IN signed' = Append(signed, [fn |-> call.fn, url |-> call.url,
                                    headers |-> buildHeaders(s.sign, s.deviceTime, tdid)])
    /\ UNCHANGED <<clock, tdid, notSign>>


----------------------------------------------------------------------------
(* jianying getUploadAuth: the signed GET request that asks the upload     *)
(* service for an upload address, and awsSignature that signs it.          *)

vodBaseURL == "https://vod.bytedanceapi.com"

\* the characters of the strings below in the order of their byte values
ByteOrder ==
    " -/0123456789:;=?ABCDEFGHIJKLMNOPQRSTUVWXYZ_abcdefghijklmnopqrstuvwxyz"
ByteOf(c) == CHOOSE i \in 1..Len(ByteOrder) : SubSeq(ByteOrder, i, i) = c
\* Go's < on strings: byte by byte, a proper prefix first
RECURSIVE StrLess(_, _)
StrLess(a, b) ==
    IF Len(b) = 0 THEN FALSE
    ELSE IF Len(a) = 0 THEN TRUE
    ELSE LET x == ByteOf(SubSeq(a, 1, 1))
             y == ByteOf(SubSeq(b, 1, 1))
         IN IF x # y THEN x < y
            ELSE StrLess(SubSeq(a, 2, Len(a)), SubSeq(b, 2, Len(b)))

UpperLetters == "ABCDEFGHIJKLMNOPQRSTUVWXYZ"
LowerLetters == "abcdefghijklmnopqrstuvwxyz"
\* strings.ToLower
RECURSIVE ToLower(_)
ToLower(s) ==
    IF Len(s) = 0 THEN ""
    ELSE LET c == SubSeq(s, 1, 1)
             up == {i \in 1..26 : SubSeq(UpperLetters, i, i) = c}
         IN (IF up = {} THEN c
             ELSE LET i == CHOOSE j \in up : TRUE IN SubSeq(LowerLetters, i, i))
            \o ToLower(SubSeq(s, 2, Len(s)))
\* strings.TrimSpace
RECURSIVE TrimSpace(_)
TrimSpace(s) ==
    IF Len(s) = 0 THEN s
    ELSE IF SubSeq(s, 1, 1) = " " THEN TrimSpace(SubSeq(s, 2, Len(s)))
    ELSE IF SubSeq(s, Len(s), Len(s)) = " " THEN TrimSpace(SubSeq(s, 1, Len(s) - 1))
    ELSE s

\* requestParams := fmt.Sprintf("Action=ApplyUploadInner&FileSize=%d&...", fileSize)
requestParams(fileSize) ==
    "Action=ApplyUploadInner&FileSize=" \o DecimalString(BigOf(fileSize))
    \o "&FileType=object&IsInner=1&SpaceName=lv-mac-recognition"
    \o "&Version=2020-11-19&s=5y0udbjapi"

sha256Sum(data) == "sha256(" \o data \o ")"
hmacSHA256(key, data) == "hmac(" \o key \o "," \o data \o ")"
getSignatureKey(secretKey, dateStamp, regionName, serviceName) ==
    hmacSHA256(hmacSHA256(hmacSHA256(hmacSHA256("AWS4" \o secretKey, dateStamp),
                                     regionName), serviceName), "aws4_request")

\* the orders in which a range over a map with these keys can yield them
RangeOrders(keys) ==
    {o \in [1..Cardinality(keys) -> keys] : \A i, j \in DOMAIN o : i # j => o[i] # o[j]}

\* sort.Slice(entries, less by key): the entries in ascending order of
\* their keys (the keys of one header map differ, so the order is unique)
RECURSIVE InsertEntry(_, _)
InsertEntry(e, sorted) ==
    IF sorted = <<>> THEN <<e>>
    ELSE IF StrLess(e.key, Head(sorted).key) THEN <<e>> \o sorted
    ELSE <<Head(sorted)>> \o InsertEntry(e, Tail(sorted))
\* the entries in the order in which the range over the map appended them
SortedEntries_AsRanged(entries) == entries

RECURSIVE SortedEntries(_)
SortedEntries(entries) ==
    IF entries = <<>> THEN <<>>
    ELSE InsertEntry(Head(entries), SortedEntries(Tail(entries)))

\* the entries of the header map, appended in the order the range over the
\* map yields them, lower-cased and trimmed, then sorted by key
headerEntries(headers, order) ==
    SortedEntries([i \in 1..Len(order) |->
                      [key |-> ToLower(order[i]),
                       value |-> TrimSpace(headers[order[i]])]])
RECURSIVE JoinWith(_, _)
JoinWith(elems, sep) ==
    IF Len(elems) = 0 THEN ""
    ELSE IF Len(elems) = 1 THEN elems[1]
    ELSE elems[1] \o sep \o JoinWith(Tail(elems), sep)


\* the parameters of the request in the opposite order
canonicalQuerystring_Reversed(params) ==
    "s=5y0udbjapi&Version=2020-11-19&SpaceName=lv-mac-recognition&IsInner=1"
    \o "&FileType=object&" \o SubSeq(params, 25, Len(params) - 87)
    \o "&Action=ApplyUploadInner"

\* canonicalQuerystring := requestParams
canonicalQuerystring(params) == params

canonicalRequest(params, headers, order, method, payload) ==
    LET entries == headerEntries(headers, order)
        canonicalHeaders ==
            JoinWith([i \in 1..Len(entries) |->
                         entries[i].key \o ":" \o entries[i].value \o "\n"], "")
        signedHeaders == JoinWith([i \in 1..Len(entries) |-> entries[i].key], ";")
    IN method \o "\n" \o "/" \o "\n" \o canonicalQuerystring(params) \o "\n"
       \o canonicalHeaders \o "\n" \o signedHeaders \o "\n" \o sha256Sum(payload)

awsSignature(secretKey, params, headers, order, method, payload, region, service) ==
    LET amzdate == headers["x-amz-date"]
        datestamp == SubSeq(amzdate, 1, 8)
        credentialScope ==
            datestamp \o "/" \o region \o "/" \o service \o "/aws4_request"
        stringToSign ==
            "AWS4-HMAC-SHA256" \o "\n" \o amzdate \o "\n" \o credentialScope \o "\n"
            \o sha256Sum(canonicalRequest(params, headers, order, method, payload))
    IN hmacSHA256(getSignatureKey(secretKey, datestamp, region, service),
                  stringToSign)

\* what the upload service answers: no answer, a status other than 200, a
\* body that is not JSON, bodies that lack one of the fields, a full body
AuthResponses ==
    {"no_response", "status_403", "not_json", "no_Result", "no_UploadAddress",
     "empty_StoreInfos", "bad_StoreInfo", "empty_UploadHosts", "complete"}
AuthError(resp) ==
    CASE resp = "no_response" -> "transport"
      [] resp = "status_403" -> "APIError"
      [] resp = "not_json" -> "failed to parse JSON response"
      [] resp = "no_Result" -> "missing Result field in response"
      [] resp = "no_UploadAddress" -> "missing UploadAddress field"
      [] resp = "empty_StoreInfos" -> "missing or empty StoreInfos"
      [] resp = "bad_StoreInfo" -> "invalid StoreInfo format"
      [] resp = "empty_UploadHosts" -> "missing or empty UploadHosts"
      [] OTHER -> ""

FileSizes == {0, 7, 1024, 1048576}
UtcTimes == {"20240131T235959Z", "20250101T000000Z"}
SessionTokens == {"STS2abc", " STS2abc ", ""}
UploadAuthCalls ==
    {[fn |-> "getUploadAuth", fileSize |-> n, now |-> t, sessionToken |-> tok,
      secretKey |-> "sk", accessKey |-> "ak", resp |-> r, order |-> o] :
        n \in FileSizes, t \in UtcTimes, tok \in SessionTokens, r \in AuthResponses,
        o \in RangeOrders({"x-amz-date", "x-amz-security-token"})}

\* getUploadAuth: the query string is built, signed with the two headers,
\* sent in the URL with the headers and the authorization header, and the
\* answer is taken apart
jianying_getUploadAuth ==
    /\ fnCall.fn = "getUploadAuth" /\ fnRet = NoRun
    /\ LET params == requestParams(fnCall.fileSize)
           amzDate == fnCall.now
           datestamp == SubSeq(fnCall.now, 1, 8)
           headers == ("x-amz-date" :> amzDate)
                      @@ ("x-amz-security-token" :> fnCall.sessionToken)
           signature == awsSignature(fnCall.secretKey, params, headers, fnCall.order,
                                     "GET", "",
                                     "cn", "vod")
           authHeader ==
               "AWS4-HMAC-SHA256 Credential=" \o fnCall.accessKey \o "/" \o datestamp
               \o "/cn/vod/aws4_request, SignedHeaders=x-amz-date;x-amz-security-token, Signature="
               \o signature
       IN fnRet' = [done |-> TRUE,
                    req |-> [method |-> "GET",
                             url |-> vodBaseURL \o "/?" \o params,
                             headers |-> headers @@ ("authorization" :> authHeader)],
                    signed |-> canonicalRequest(params, headers, fnCall.order, "GET", ""),
                    signature |-> signature,
                    err |-> AuthError(fnCall.resp),
                    stored |-> fnCall.resp = "complete"]
    /\ UNCHANGED <<fnCall, notFn>>


----------------------------------------------------------------------------
(* Options.Validate of every options type, called again and again on the   *)
(* same value.                                                             *)

\* llm.Options: the fields Validate reads; Messages by its length
LlmOptions(key, model, msgs, temp, topP, maxTokens) ==
    [type |-> "llm.Options", APIKey |-> key, Model |-> model, Messages |-> msgs,
     Temperature |-> temp, TopP |-> topP, MaxTokens |-> maxTokens]

FGt(a, b) == ~a.nan /\ ~b.nan /\ a.v > b.v

\* llm Validate: Temperature 1.0 if zero
DefaultTemperature == 1

llm_Validate(o) ==
    IF o.APIKey = "" THEN Validated(o, ValidationError("APIKey"))
    ELSE IF o.Model = "" THEN Validated(o, ValidationError("Model"))
    ELSE IF o.Messages = 0 THEN Validated(o, ValidationError("Messages"))
    ELSE LET d == IF FEq(o.Temperature, F(0))
                     THEN [o EXCEPT !.Temperature = F(DefaultTemperature)]
                     ELSE o
         IN Validated(d,
                IF FLt(d.Temperature, F(0)) \/ FGt(d.Temperature, F(2))
                   THEN ValidationError("Temperature")
                ELSE IF ~FEq(d.TopP, F(0)) /\ (FLt(d.TopP, F(0)) \/ FGt(d.TopP, F(1)))
                   THEN ValidationError("TopP")
                ELSE IF d.MaxTokens < 0 THEN ValidationError("MaxTokens")
                ELSE NoErr)

\* o.Validate() through the method of o's type
ValidateOf(o) ==
    CASE o.type = "bijian.Options" -> bijian_Validate(o)
      [] o.type = "jianying.Options" -> jianying_Validate(o)
      [] o.type = "elevenlabs.Options" -> elevenlabs_Validate(o)
      [] o.type = "llm.Options" -> llm_Validate(o)

LlmFloats == {F(0 - 1), F(0), F(1), F(2), F(3), NaN}
OptionValues ==
    {BijianOptions(c) : c \in {"", "c"}}
    \cup {JianyingOptions(s, e) : s, e \in OptionTimes}
    \cup {ElevenlabsOptions(l, t) : l \in {"", "auto", "zh"}, t \in BOOLEAN}
    \cup {LlmOptions(k, m, n, t, p, x) :
              k \in {"", "key"}, m \in {"", "gpt-4"}, n \in {0, 1},
              t \in LlmFloats, p \in LlmFloats, x \in {0 - 1, 0, 100}}
ValidateCalls == {[fn |-> "Validate", opts |-> o] : o \in OptionValues}

\* the value Validate is called on next: the caller's, then what the
\* call before left
CurrentOptions == IF fnRet = NoRun THEN fnCall.opts ELSE fnRet.opts[Len(fnRet.opts)]

\* o.Validate() is called once more on the same value; fnRet keeps the value
\* as each call left it and the error of each call
Options_Validate ==
    /\ fnCall.fn = "Validate"
    /\ IF fnRet = NoRun THEN TRUE ELSE Len(fnRet.errs) < MaxValidate
    /\ LET v == ValidateOf(CurrentOptions)
       IN fnRet' = IF fnRet = NoRun
                      THEN [done |-> TRUE, opts |-> <<v.opts>>, errs |-> <<v.err>>]
                      ELSE [done |-> TRUE, opts |-> Append(fnRet.opts, v.opts),
                            errs |-> Append(fnRet.errs, v.err)]
    /\ UNCHANGED <<fnCall, notFn>>


----------------------------------------------------------------------------
(* prompt Renderer.Render: the values are validated against the variables  *)
(* of the template, then every value is substituted for its placeholders,  *)
(* one variable after the other in the order the range over ctx.Values     *)
(* yields them.  The templates have no meta element: their variables are   *)
(* those found in the content, of type string, not required, no default.   *)

\* strings.ReplaceAll(s, old, new), old not empty: the occurrences of old
\* from left to right, not overlapping
RECURSIVE ReplaceAll(_, _, _)
ReplaceAll(s, old, new) ==
    IF Len(s) < Len(old) THEN s
    ELSE IF SubSeq(s, 1, Len(old)) = old
         THEN new \o ReplaceAll(SubSeq(s, Len(old) + 1, Len(s)), old, new)
         ELSE SubSeq(s, 1, 1) \o ReplaceAll(SubSeq(s, 2, Len(s)), old, new)

\* valueToString: a string as it is, an integer by %d
valueToString(value) ==
    IF IsStr(value) THEN value.v ELSE DecimalString(BigOf(value.v))

\* validateAndApplyDefaults: a provided value of a variable of the template
\* must be a string; nothing is required and nothing has a default
validateAndApplyDefaults(template, values) ==
    IF \E name \in template.vars : name \in DOMAIN values /\ ~IsStr(values[name])
       THEN [type |-> "ValidationErrors"]
       ELSE NoErr

\* the loop of Render over the names in the order of the range
RECURSIVE Substitute(_, _, _)
Substitute(text, values, order) ==
    IF order = <<>> THEN text
    ELSE LET name == Head(order)
             strValue == valueToString(values[name])
             spaced == ReplaceAll(text, "{{ " \o name \o " }}", strValue)
         IN Substitute(ReplaceAll(spaced, "{{" \o name \o "}}", strValue),
                       values, Tail(order))

Render(template, values, order) ==
    IF validateAndApplyDefaults(template, values) # NoErr
       THEN [done |-> TRUE, out |-> "",
             err |-> validateAndApplyDefaults(template, values)]
       ELSE [done |-> TRUE, out |-> Substitute(template.content, values, order),
             err |-> NoErr]

Templates ==
    {[content |-> "{{a}}", vars |-> {"a"}],
     [content |-> "{{ a }}, {{b}}!", vars |-> {"a", "b"}],
     [content |-> "{{b}}{{ a }}", vars |-> {"a", "b"}],
     [content |-> "no variables", vars |-> {}]}
VarNames == {"a", "b"}
VarValues == {JStr("x"), JStr(""), JStr("{{b}}"), JStr("{{ a }}"), JNum(7)}
ValueMaps == UNION {[names -> VarValues] : names \in SUBSET VarNames}
RenderCalls ==
    {[fn |-> "Render", template |-> t, values |-> v, order |-> o] :
        t \in Templates, v \in ValueMaps, o \in SeqsUpTo(VarNames, 2)}

\* Renderer.Render is called; the range over ctx.Values yields the names in
\* the order fnCall.order
prompt_Render ==
    /\ fnCall.fn = "Render" /\ fnRet = NoRun
    /\ fnRet' = Render(fnCall.template, fnCall.values, fnCall.order)
    /\ UNCHANGED <<fnCall, notFn>>

----------------------------------------------------------------------------
(* The specifications: one Fetch call of any backend (Spec), and the       *)
(* Registry under concurrent callers (RegistrySpec).                       *)

FirstStep(b) == Steps(b)[1]

FetchLocalsInit ==
    /\ cancelled = FALSE
    /\ inflight = {}
    /\ reqCount = [k \in ReqKeys |-> 0]
    /\ uploadResp = JNull
    /\ etags = <<>>
    /\ partIdx = 0
    /\ downloadURL = ""
    /\ taskID = ""
    /\ pollI = 0
    /\ uploadCtx = EmptyCtx
    /\ queryID = ""
    /\ result = NoResult
    /\ lastHTTP = NoHTTP
    /\ firstDone = [attempt |-> 0, payload |-> JNull]
    /\ cancelAt = NotCancelled

\* Fetch is called on one of the providers
FetchInit ==
    /\ backend \in Backends
    /\ pc = FirstStep(backend)
    /\ phase = "call"
    /\ FetchLocalsInit

\* no Fetch call is running
FetchIdle ==
    /\ backend = "-"
    /\ pc = "-"
    /\ phase = "done"
    /\ FetchLocalsInit

\* globalRegistry = &Registry{providers: make(map[string]Provider)}
RegistryInit ==
    /\ mu = [writer |-> 0, readers |-> {}, pending |-> {}]
    /\ providers = <<>>
    /\ rpc = [p \in Procs |-> "idle"]
    /\ rop = [p \in Procs |-> NoCall]
    /\ rret = [p \in Procs |-> NoRet]
    /\ regLog = <<>>

\* no Provider.Fetch or Provider.Parse call is being followed
OptIdle == optsIn = NoOpts /\ opts = NoOpts
ParseIdle == praw = NoParseCall /\ pout = NoParse

TranscribeIdle ==
    /\ tpc = "done" /\ tname = "-" /\ tprov = NoProvider
    /\ traw = NoResult /\ tres = NoResult /\ tcalls = NoCalls
\* no concurrent calls and no resources are being followed
ConcIdle ==
    /\ cback = [c \in Calls |-> "-"] /\ cat = [c \in Calls |-> 1]
    /\ cwait = [c \in Calls |-> FALSE] /\ csess = [c \in Calls |-> <<>>]
    /\ clog = {}
ResIdle ==
    /\ rsb = "-" /\ frame = NoFrame /\ held = NothingHeld
    /\ rcalls = 0 /\ rexit = "-"
FnIdle == fnCall = NoFn /\ fnRet = NoRun
SignIdle == clock = 0 /\ tdid = "" /\ signed = <<>>
OthersIdle ==
    OptIdle /\ ParseIdle /\ TranscribeIdle /\ ConcIdle /\ ResIdle /\ FnIdle /\ SignIdle

Init == FetchInit /\ RegistryInit /\ OthersIdle

Next ==
    \/ bijian_ReadFile
    \/ bijian_RequestUploadSend
    \/ bijian_RequestUploadRecv
    \/ bijian_UploadPartsEnter
    \/ bijian_UploadPartSend
    \/ bijian_UploadPartRecv
    \/ bijian_CommitSend
    \/ bijian_CommitRecv
    \/ bijian_CreateTaskSend
    \/ bijian_CreateTaskRecv
    \/ bijian_PollCheck
    \/ bijian_PollSend
    \/ bijian_PollRecv
    \/ bijian_PollSleep
    \/ jianying_ReadFile
    \/ jianying_UploadSignSend
    \/ jianying_UploadSignRecv
    \/ jianying_UploadAuthSend
    \/ jianying_UploadAuthRecv
    \/ jianying_UploadFileSend
    \/ jianying_UploadFileRecv
    \/ jianying_UploadCheckSend
    \/ jianying_UploadCheckRecv
    \/ jianying_UploadCommitSend
    \/ jianying_UploadCommitRecv
    \/ jianying_SubmitTaskSend
    \/ jianying_SubmitTaskRecv
    \/ jianying_QueryTaskSend
    \/ jianying_QueryTaskRecv
    \/ elevenlabs_CheckFile
    \/ elevenlabs_OpenFile
    \/ elevenlabs_CopyFile
    \/ elevenlabs_Send
    \/ elevenlabs_Recv
    \/ Cancel

Spec == Init /\ [][Next]_vars


\* the steps of the Fetch call itself: every step of Next but the caller's
\* Cancel
FetchStep ==
    \/ bijian_ReadFile
    \/ bijian_RequestUploadSend
    \/ bijian_RequestUploadRecv
    \/ bijian_UploadPartsEnter
    \/ bijian_UploadPartSend
    \/ bijian_UploadPartRecv
    \/ bijian_CommitSend
    \/ bijian_CommitRecv
    \/ bijian_CreateTaskSend
    \/ bijian_CreateTaskRecv
    \/ bijian_PollCheck
    \/ bijian_PollSend
    \/ bijian_PollRecv
    \/ bijian_PollSleep
    \/ jianying_ReadFile
    \/ jianying_UploadSignSend
    \/ jianying_UploadSignRecv
    \/ jianying_UploadAuthSend
    \/ jianying_UploadAuthRecv
    \/ jianying_UploadFileSend
    \/ jianying_UploadFileRecv
    \/ jianying_UploadCheckSend
    \/ jianying_UploadCheckRecv
    \/ jianying_UploadCommitSend
    \/ jianying_UploadCommitRecv
    \/ jianying_SubmitTaskSend
    \/ jianying_SubmitTaskRecv
    \/ jianying_QueryTaskSend
    \/ jianying_QueryTaskRecv
    \/ elevenlabs_CheckFile
    \/ elevenlabs_OpenFile
    \/ elevenlabs_CopyFile
    \/ elevenlabs_Send
    \/ elevenlabs_Recv

\* one Fetch call whose goroutine keeps running and whose requests return:
\* a step of the call that stays possible is taken (every client has a
\* Timeout, so client.Do returns; time.Sleep returns); the caller may cancel
\* at any time or never
FairSpec == Init /\ [][Next]_vars /\ WF_vars(FetchStep)

RegistryStart == FetchIdle /\ RegistryInit /\ OthersIdle

RegistryNext ==
    \E p \in Procs :
        \/ Call(p)
        \/ Register_Lock(p)
        \/ Register_Acquire(p)
        \/ Register_Write(p)
        \/ Register_Unlock(p)
        \/ Reader_RLock(p)
        \/ Get_Read(p)
        \/ List_Read(p)
        \/ Reader_RUnlock(p)

RegistrySpec == RegistryStart /\ [][RegistryNext]_vars

\* Provider.Parse of any backend on any raw response (ParseSpec)
ParseStart ==
    /\ praw \in {ParseCall("bijian", r) : r \in BijianResponses}
            \cup {ParseCall("jianying", r) : r \in JianyingResponses}
            \cup {ParseCall("elevenlabs", r) : r \in ElevenlabsResponses}
    /\ pout = NoParse
    /\ FetchIdle /\ RegistryInit /\ OptIdle /\ TranscribeIdle
    /\ ConcIdle /\ ResIdle /\ FnIdle /\ SignIdle

\* Provider.Fetch of any backend on any opts argument (ProviderSpec)
ProviderInit ==
    /\ backend \in Backends
    /\ pc = "validate"
    /\ phase = "call"
    /\ FetchLocalsInit
    /\ optsIn \in OptionArgs(backend)
    /\ opts = NoOpts
    /\ RegistryInit /\ ParseIdle /\ TranscribeIdle /\ ConcIdle /\ ResIdle /\ FnIdle /\ SignIdle

ProviderNext == bijian_Fetch \/ jianying_Fetch \/ elevenlabs_Fetch \/ Next

ProviderSpec == ProviderInit /\ [][ProviderNext]_vars

\* Transcribe on a registry that some Register calls have filled
\* (TranscribeSpec)
TranscribeStart ==
    /\ regLog \in SeqsUpTo(Providers, MaxRegs)
    /\ providers = StoreAll(regLog)
    /\ mu = [writer |-> 0, readers |-> {}, pending |-> {}]
    /\ rpc = [p \in Procs |-> "idle"]
    /\ rop = [p \in Procs |-> NoCall]
    /\ rret = [p \in Procs |-> NoRet]
    /\ tpc = "get" /\ tname \in RegNames /\ tprov = NoProvider
    /\ traw = NoResult /\ tres = NoResult /\ tcalls = NoCalls
    /\ FetchIdle /\ OptIdle /\ ParseIdle /\ ConcIdle /\ ResIdle /\ FnIdle /\ SignIdle

TranscribeNext == Transcribe_Get \/ Transcribe_Fetch \/ Transcribe_Parse

TranscribeSpec == TranscribeStart /\ [][TranscribeNext]_vars

ParseNext == bijian_Parse \/ jianying_Parse \/ elevenlabs_Parse

ParseSpec == ParseStart /\ [][ParseNext]_vars

\* NCalls Fetch calls, of any backends, running concurrently (ConcurrentSpec)
ConcurrentStart ==
    /\ cback \in [Calls -> Backends]
    /\ cat = [c \in Calls |-> 1]
    /\ cwait = [c \in Calls |-> FALSE]
    /\ csess = [c \in Calls |-> <<>>]
    /\ clog = {}
    /\ FetchIdle /\ RegistryInit /\ OptIdle /\ ParseIdle /\ TranscribeIdle
    /\ ResIdle /\ FnIdle /\ SignIdle

ConcurrentNext == \E c \in Calls : Conc_Send(c) \/ Conc_Recv(c) \/ Conc_Fail(c)

ConcurrentSpec == ConcurrentStart /\ [][ConcurrentNext]_vars

\* one Fetch call of any backend and what it holds open (ResourceSpec)
ResourceStart ==
    /\ rsb \in Backends
    /\ frame = NoFrame /\ held = NothingHeld /\ rcalls = 0 /\ rexit = "running"
    /\ FetchIdle /\ RegistryInit /\ OptIdle /\ ParseIdle /\ TranscribeIdle
    /\ ConcIdle /\ FnIdle /\ SignIdle

ResourceNext ==
    \/ Res_OpenFile
    \/ Res_DeferFile
    \/ Res_Call
    \/ Res_Do
    \/ Res_DeferBody
    \/ Res_Rest

ResourceSpec == ResourceStart /\ [][ResourceNext]_vars


\* bijian uploadParts on any audio data and upload authorization
\* (UploadPartsSpec)
UploadPartsStart ==
    /\ fnCall \in UploadPartsCalls /\ fnRet = NoRun
    /\ FetchIdle /\ RegistryInit /\ OptIdle /\ ParseIdle /\ TranscribeIdle
    /\ ConcIdle /\ ResIdle /\ SignIdle

UploadPartsNext == bijian_uploadParts

UploadPartsSpec == UploadPartsStart /\ [][UploadPartsNext]_vars


\* jianying generateTDID in any year on any host (TdidSpec)
TdidStart ==
    /\ fnCall \in TdidCalls /\ fnRet = NoRun
    /\ FetchIdle /\ RegistryInit /\ OptIdle /\ ParseIdle /\ TranscribeIdle
    /\ ConcIdle /\ ResIdle /\ SignIdle

TdidNext == jianying_generateTDID

TdidSpec == TdidStart /\ [][TdidNext]_vars


\* the signed requests of one jianying fetch (SignSpec)
SignStart ==
    /\ clock \in 0..MaxClock /\ tdid = "" /\ signed = <<>>
    /\ FetchIdle /\ RegistryInit /\ OptIdle /\ ParseIdle /\ TranscribeIdle
    /\ ConcIdle /\ ResIdle /\ FnIdle

SignNext == jianying_fetch_tdid \/ Tick \/ jianying_SignedSend

SignSpec == SignStart /\ [][SignNext]_vars


\* jianying getUploadAuth for any file size, time and session token
\* (UploadAuthSpec)
UploadAuthStart ==
    /\ fnCall \in UploadAuthCalls /\ fnRet = NoRun
    /\ FetchIdle /\ RegistryInit /\ OptIdle /\ ParseIdle /\ TranscribeIdle
    /\ ConcIdle /\ ResIdle /\ SignIdle

UploadAuthNext == jianying_getUploadAuth

UploadAuthSpec == UploadAuthStart /\ [][UploadAuthNext]_vars


\* Validate called repeatedly on any options value (ValidateSpec)
ValidateStart ==
    /\ fnCall \in ValidateCalls /\ fnRet = NoRun
    /\ FetchIdle /\ RegistryInit /\ OptIdle /\ ParseIdle /\ TranscribeIdle
    /\ ConcIdle /\ ResIdle /\ SignIdle

ValidateNext == Options_Validate

ValidateSpec == ValidateStart /\ [][ValidateNext]_vars


\* Renderer.Render on any template and values, in any order of the range
\* over the values (RenderSpec)
RenderStart ==
    /\ fnCall \in RenderCalls /\ fnRet = NoRun
    /\ fnCall.order \in RangeOrders(DOMAIN fnCall.values)
    /\ FetchIdle /\ RegistryInit /\ OptIdle /\ ParseIdle /\ TranscribeIdle
    /\ ConcIdle /\ ResIdle /\ SignIdle

RenderNext == prompt_Render

RenderSpec == RenderStart /\ [][RenderNext]_vars

----------------------------------------------------------------------------
(* The claims.                                                             *)

StepSet(b) == {Steps(b)[i] : i \in 1..Len(Steps(b))}
Returned == phase = "done"
Failed == Returned /\ ~result.ok
Polls == reqCount[PollKey]

\* a status response that is neither an error nor the sentinel: poll again
Pending(o) ==
    /\ o.kind = "resp" /\ o.status = StatusOK /\ o.json
    /\ IsNum(Field(Field(o.val, "data"), "state"))
    /\ Field(Field(o.val, "data"), "state").v # StateCompleted

\* C1: when the k-th status response is the first to carry state 4, exactly
\* k status requests are issued, none after it, the call has returned, and
\* what it returns is the result decoded from that response's result string.
C1_PollStopsAtFirstCompleted ==
    (backend = "bijian" /\ firstDone.attempt # 0) =>
        /\ Polls = firstDone.attempt
        /\ Returned
        /\ (IsStr(firstDone.payload) /\ Unmarshal(firstDone.payload.v).ok
               => result = Unmarshal(firstDone.payload.v))

\* the spec's example: pending on attempts 1 and 2, complete on attempt 3
C1_Witness ==
    /\ backend = "bijian" /\ firstDone.attempt = 3 /\ Returned /\ result.ok

\* C2: never more than 500 status requests in one call; a timeout is
\* returned only after exactly 500; and when the 500th response is still
\* pending (so every response was) the call fails with the timeout error.
C2_PollCap ==
    backend = "bijian" =>
        /\ Polls <= MaxAttempts
        /\ (Failed /\ Cause(result.err) = TimeoutErr => Polls = MaxAttempts)
        /\ (Returned /\ Polls = MaxAttempts /\ Pending(lastHTTP)
               => result = Fail(FetchError("poll_result", TimeoutErr)))

C2_Witness ==
    /\ backend = "bijian" /\ Failed /\ Cause(result.err) = TimeoutErr
    /\ Polls = MaxAttempts

\* ctx was cancelled inside the poll loop while no status request was in
\* flight and a further attempt was still due
CancelledBetweenAttempts ==
    /\ cancelled
    /\ cancelAt.step = "poll_result"
    /\ cancelAt.phase \in {"check", "call", "sleep"}
    /\ cancelAt.polls < MaxAttempts

\* C3: when ctx is cancelled between two poll attempts, no further status
\* request is issued and Fetch returns a FetchError of step poll_result
\* whose cause is the cancellation error, not the timeout error.
C3_CancelBetweenAttempts ==
    (backend = "bijian" /\ CancelledBetweenAttempts) =>
        /\ Polls = cancelAt.polls
        /\ inflight = {}
        /\ (Returned => /\ ~result.ok
                        /\ IsFetchError(result.err)
                        /\ result.err.Step = "poll_result"
                        /\ Cause(result.err) = Canceled
                        /\ Cause(result.err) # TimeoutErr)

C3_Witness ==
    /\ backend = "bijian" /\ CancelledBetweenAttempts
    /\ cancelAt.phase = "sleep" /\ cancelAt.polls = 2
    /\ Returned /\ Cause(result.err) = Canceled

\* C4 (as claimed): the signed backend's Fetch returns a result only once
\* the queried task has reached its terminal status, re-issuing the query
\* until then.
C4_SignedQueryPolls ==
    (backend = "jianying" /\ Returned /\ result.ok) => TaskFinished(lastHTTP)

\* C5: when a step of a multi-step workflow fails, Fetch returns a
\* FetchError whose Step is the step the call was in, whose Err is what the
\* step reported (the transport's error when client.Do failed), and no
\* request of a later step has been issued.
C5_FailingStepNamed ==
    (backend \in {"bijian", "jianying"} /\ Failed) =>
        /\ IsFetchError(result.err)
        /\ result.err.Step = pc
        /\ result.err.Step \in StepSet(backend)
        /\ ~IsFetchError(result.err.Err)
        /\ result.err.Err # NoErr
        /\ (lastHTTP.kind = "err" => Cause(result.err) = Cause(lastHTTP.err))
        /\ \A k \in ReqKeys :
              reqCount[k] > 0 => /\ k[1] \in StepSet(backend)
                                 /\ StepIdx(backend, k[1]) <= StepIdx(backend, pc)

C5_Witness ==
    /\ backend = "bijian" /\ Failed /\ pc = "commit_upload"
    /\ lastHTTP.kind = "err" /\ Cause(result.err) = NetErr
    /\ reqCount[<<"create_task", 0>>] = 0

\* request j comes no later than request k in the protocol
NoLater(b, j, k) ==
    /\ j[1] \in StepSet(b)
    /\ \/ StepIdx(b, j[1]) < StepIdx(b, k[1])
       \/ j[1] = k[1] /\ j[2] <= k[2]

\* C6: a request is issued only when no request of the call is in flight,
\* and every request issued before it belongs to the same or an earlier
\* step of the protocol (part uploads in URL order); at most one request is
\* in flight at any time.
C6_SequentialSteps ==
    [][/\ Cardinality(inflight') <= 1
       /\ \A k \in ReqKeys :
             reqCount'[k] > reqCount[k] =>
                 /\ inflight = {}
                 /\ k[1] \in StepSet(backend)
                 /\ \A j \in ReqKeys : reqCount[j] > 0 => NoLater(backend, j, k)]_vars

C6_Witness ==
    /\ backend = "bijian" /\ pc = "poll_result" /\ Cardinality(inflight) = 1
    /\ reqCount[<<"upload_parts", 2>>] = 1 /\ Polls = 2

\* C7: every request other than the status poll is issued at most once in a
\* call, each part URL receiving at most one PUT.
C7_NoRetry ==
    \A k \in ReqKeys \ {PollKey} : reqCount[k] <= 1

C7_Witness ==
    /\ backend = "bijian" /\ Failed /\ pc = "upload_parts"
    /\ lastHTTP.kind = "resp" /\ lastHTTP.status # StatusOK
    /\ reqCount[<<"upload_parts", 1>>] = 1 /\ reqCount[<<"upload_parts", 2>>] = 1

\* C8 (as claimed): in every backend, when the response of an HTTP call has
\* a non-success status, Fetch returns a FetchError naming the step, whose
\* cause is an APIError with that status code and the raw body.
C8_StatusErrorWrapped ==
    (Returned /\ lastHTTP.kind = "resp" /\ lastHTTP.status # StatusOK
              /\ ~lastHTTP.trunc) =>
        /\ ~result.ok
        /\ IsFetchError(result.err)
        /\ result.err.Step = pc
        /\ Cause(result.err) = APIError(lastHTTP.status, lastHTTP.raw)

\* a goroutine is between acquiring mu and releasing it
InCritical(p) == rpc[p] \in {"write", "unlock", "read", "runlock"}

\* C9: a goroutine inside Register's critical section is alone in any
\* critical section; only Get and List overlap, and only with each other.
C9_RegisterExclusive ==
    \A p, q \in Procs :
        (p # q /\ InCritical(p) /\ InCritical(q)) =>
            (rop[p].op \in {"Get", "List"} /\ rop[q].op \in {"Get", "List"})

\* Register is about to write the map while a reader is kept out
C9_Witness ==
    \E p, q \in Procs :
        /\ rop[p].op = "Register" /\ rpc[p] = "write"
        /\ rop[q].op = "Get" /\ rpc[q] = "rlock"
        /\ Len(regLog) > 0

\* what Get(name) has to return after the Register calls of log
LastRegistered(log, name) ==
    LET at == {i \in 1..Len(log) : Name(log[i]) = name} IN
    IF at = {} THEN [ok |-> FALSE, val |-> <<>>, err |-> NotFound]
    ELSE [ok |-> TRUE, val |-> log[CHOOSE i \in at : \A j \in at : j <= i],
          err |-> NoErr]

\* C10: Get(name) returns the provider of the most recent Register with
\* that name, and the not-found error exactly when there was none.
C10_GetLastRegistered ==
    \A p \in Procs :
        (rop[p].op = "Get" /\ rpc[p] = "runlock") =>
            rret[p] = LastRegistered(regLog, rop[p].name)

\* a Get that finds the second of two providers registered under its name
C10_Witness ==
    \E p \in Procs :
        /\ rop[p].op = "Get" /\ rpc[p] = "runlock"
        /\ Len(regLog) = 2 /\ Name(regLog[1]) = Name(regLog[2])
        /\ regLog[1] # regLog[2]
        /\ rret[p].ok /\ rret[p].val = regLog[2]

\* Provider.Parse has returned
Parsed == pout # NoParse

\* the JSON objects found in the words arrays of a raw response
RECURSIVE WordObjects(_)
WordObjects(utts) ==
    IF utts = <<>> THEN <<>>
    ELSE (IF IsObj(Head(utts)) THEN Objects(Field(Head(utts), "words")) ELSE <<>>)
         \o WordObjects(Tail(utts))
WordsIn(call) ==
    IF call.provider = "elevenlabs" THEN Objects(Field(call.raw, "words"))
    ELSE IF call.provider = "bijian"
    THEN WordObjects(IF IsArr(Field(call.raw, "utterances"))
                     THEN Field(call.raw, "utterances").v ELSE <<>>)
    ELSE WordObjects(IF IsArr(Field(Field(call.raw, "data"), "utterances"))
                     THEN Field(Field(call.raw, "data"), "utterances").v ELSE <<>>)

\* C11: a successful Parse of any backend has at least one Word; a raw
\* response in which no word entry is found yields a ParseError and no
\* result, whatever text or sentences it carries.
C11_NoEmptyWords ==
    Parsed =>
        /\ (pout.ok => Len(pout.val.Words) > 0)
        /\ (WordsIn(praw) = <<>> =>
               /\ ~pout.ok
               /\ pout.val = JNull
               /\ pout.err.type = "ParseError")

\* an elevenlabs response with text and a language, whose words array has
\* only a non-object entry
C11_Witness ==
    /\ Parsed /\ praw.provider = "elevenlabs"
    /\ IsStr(Field(praw.raw, "text")) /\ IsStr(Field(praw.raw, "language_code"))
    /\ IsArr(Field(praw.raw, "words")) /\ Len(Field(praw.raw, "words").v) = 1
    /\ WordsIn(praw) = <<>>
    /\ pout = Fail(ParseError("no words found in response"))

\* C12 (as claimed): every Word of a successful Parse has 0 <= Start <= End.
C12_WordTimesOrdered ==
    (Parsed /\ pout.ok) =>
        \A i \in 1..Len(pout.val.Words) :
            /\ 0 <= pout.val.Words[i].Start
            /\ pout.val.Words[i].Start <= pout.val.Words[i].End

\* a word entry of the fractional-second backend as the claim maps it:
\* seconds times 1000, the speaker only when it is a non-empty string
ClaimedWord(w) ==
    Timed(StrOr(Field(w, "text")),
          Thousandths(Field(w, "start")), Thousandths(Field(w, "end")),
          IF IsStr(Field(w, "speaker_id")) THEN Field(w, "speaker_id").v ELSE "")

\* C19 (as claimed): the fractional-second backend's Parse keeps text and
\* language_code, maps every word entry in input order to a Word whose
\* Start and End are the input seconds times 1000, and has no Sentences.
C19_ElevenlabsMapping ==
    (Parsed /\ praw.provider = "elevenlabs" /\ pout.ok) =>
        /\ pout.val.Text = Field(praw.raw, "text").v
        /\ pout.val.Language = StrOr(Field(praw.raw, "language_code"))
        /\ pout.val.Sentences = <<>>
        /\ pout.val.Words = [i \in 1..Len(WordsIn(praw)) |-> ClaimedWord(WordsIn(praw)[i])]

\* C20 (as claimed): a time given in seconds with at most three decimals
\* becomes exactly that many milliseconds.
C20_ExactMillis ==
    (Parsed /\ praw.provider = "elevenlabs" /\ pout.ok) =>
        \A i \in 1..Len(pout.val.Words) :
            /\ pout.val.Words[i].Start = Thousandths(Field(WordsIn(praw)[i], "start"))
            /\ pout.val.Words[i].End = Thousandths(Field(WordsIn(praw)[i], "end"))

\* Provider.Fetch has called Validate
ValidateCalled == opts # NoOpts
\* no request of the call has been issued and no response received
NoRequests == (\A k \in ReqKeys : reqCount[k] = 0) /\ inflight = {} /\ lastHTTP = NoHTTP
\* the range the claim asks of the times: with EndTime 0 replaced by the
\* default, 0 <= StartTime < EndTime
RangeOK(o) ==
    LET end == IF o.EndTime = F(0) THEN F(DefaultEndTime) ELSE o.EndTime
    IN /\ ~o.StartTime.nan /\ ~end.nan
       /\ 0 <= o.StartTime.v /\ o.StartTime.v < end.v

ValidateError ==
    IF backend = "jianying" THEN jianying_Validate(OptionsOf("jianying", optsIn)).err
    ELSE IF backend = "bijian" THEN bijian_Validate(OptionsOf("bijian", optsIn)).err
    ELSE elevenlabs_Validate(OptionsOf("elevenlabs", optsIn)).err

\* C14: until Validate has succeeded nothing is read and no request is
\* issued; when Validate returns an error Fetch returns that error, and the
\* call ends with zero requests.
C14_ValidateBeforeNetwork ==
    /\ pc = "validate" => NoRequests
    /\ (ValidateCalled /\ ValidateError # NoErr) =>
           /\ Returned /\ pc = "validate"
           /\ result = Fail(ValidateError)
           /\ NoRequests

\* the spec's example: StartTime = 10, EndTime = 5
C14_Witness ==
    /\ backend = "jianying" /\ optsIn = JianyingOptions(F(10), F(5))
    /\ Returned /\ result = Fail(ValidationError("StartTime/EndTime"))
    /\ NoRequests

TranscribeReturned == tpc = "done" /\ tres # NoResult

\* C15: Transcribe returns the lookup error without calling Fetch or Parse
\* when the name is not registered; an error tagged "fetch failed" that
\* wraps Fetch's error, without calling Parse, when Fetch fails; an error
\* tagged "parse failed" that wraps Parse's error when Parse fails; and a
\* result only when both succeeded, Parse having been given exactly what
\* Fetch returned.
C15_TranscribeTagsPhase ==
    TranscribeReturned =>
        /\ tcalls.fetch <= 1 /\ tcalls.parse <= 1
        /\ tname \notin DOMAIN providers =>
              tres = Fail(NotFound) /\ tcalls.fetch = 0 /\ tcalls.parse = 0
        /\ tname \in DOMAIN providers => tcalls.fetch = 1
        /\ (tcalls.fetch = 1 /\ ~traw.ok) =>
              /\ tcalls.parse = 0
              /\ ~tres.ok /\ tres.err.type = "wrapError"
              /\ tres.err.msg = "fetch failed" /\ tres.err.Err = traw.err
        /\ tcalls.parse = 1 =>
              /\ traw.ok /\ tcalls.parsed = traw.val
              /\ LET out == ParseBy(providers[tname], traw.val)
                 IN IF out.ok THEN tres = Ok(out.val)
                    ELSE /\ ~tres.ok /\ tres.err.type = "wrapError"
                         /\ tres.err.msg = "parse failed" /\ tres.err.Err = out.err
        /\ tres.ok => tcalls.fetch = 1 /\ tcalls.parse = 1 /\ traw.ok

\* Fetch fails on the provider registered last under the name
C15_Witness ==
    /\ TranscribeReturned /\ Len(regLog) = 2 /\ tprov = regLog[2]
    /\ Name(regLog[1]) = tname
    /\ traw = Fail(FetchError("read_file", FsErr))
    /\ tres = Fail(Wrap("fetch failed", FetchError("read_file", FsErr)))
    /\ tcalls.parse = 0

\* the last status request has been answered by a decoded JSON response
StatusAnswered(o) ==
    /\ backend = "bijian" /\ pc = "poll_result" /\ Polls > 0 /\ phase # "wait"
    /\ o.kind = "resp" /\ o.status = StatusOK /\ o.json
\* it lacks the data object or a numeric state
NoState(o) == ~IsObj(Field(o.val, "data"))
              \/ ~IsNum(Field(Field(o.val, "data"), "state"))
\* it carries the sentinel without a result string that decodes
NoUsableResult(o) ==
    /\ ReportsCompleted(o)
    /\ \/ ~IsStr(Field(Field(o.val, "data"), "result"))
       \/ Field(Field(o.val, "data"), "result").v = "not json"

\* C16: a status response without the data object or without a numeric
\* state, or with the sentinel but a missing or undecodable result, ends
\* the call at once with an error of step poll_result that is not the
\* timeout; the loop does not sleep and poll again.
C16_MalformedStatusFails ==
    (StatusAnswered(lastHTTP) /\ (NoState(lastHTTP) \/ NoUsableResult(lastHTTP))) =>
        /\ Returned /\ ~result.ok
        /\ inflight = {}
        /\ IsFetchError(result.err) /\ result.err.Step = "poll_result"
        /\ Cause(result.err) # TimeoutErr
        /\ Cause(result.err) # NoErr

\* the second status response has a state that is a string
C16_Witness ==
    /\ StatusAnswered(lastHTTP) /\ Polls = 2
    /\ IsStr(Field(Field(lastHTTP.val, "data"), "state"))
    /\ result = Fail(FetchError("poll_result", Msg("missing state in response")))

\* C17: when Fetch calls run concurrently, every request of a call carries
\* only session values (credentials, upload identifiers, storage locators,
\* entity tags, task identifiers) returned in responses to that same call,
\* and nothing is left in the frame of a call that has returned.
C17_SessionsNotShared ==
    /\ \A r \in clog : \A v \in r.carries : v.to = r.call
    /\ \A c \in Calls : ~Running(c) => csess[c] = <<>>

\* two calls of one backend have both sent their commit request, each
\* carrying the four values of its own upload authorization and its etags
C17_Witness ==
    /\ \A c \in {1, 2} :
          \E r \in clog : /\ r.call = c /\ r.step = "commit_upload"
                          /\ Cardinality(r.carries) = 4
    /\ ~Running(1) /\ Running(2)

\* C18: on every exit path of a Fetch call, every response body obtained
\* and every file handle opened in the call is released when Fetch returns.
C18_AllReleased ==
    rexit \in ExitPaths => held.bodies = 0 /\ held.files = 0

\* Fetch has returned on a failure after it had opened the audio file and
\* obtained a response
C18_Witness ==
    /\ rexit = "failure" /\ rsb = "elevenlabs" /\ rcalls = 0
    /\ held = [bodies |-> 0, files |-> 0, acquired |-> 2]

\* the names registered by the Register calls of log
RegisteredNames(log) == {Name(log[i]) : i \in 1..Len(log)}

\* C21: after any sequence of Register calls, List returns exactly the
\* distinct names registered so far, each once, in some order; and the
\* registry holds what the Register calls stored, List having changed
\* nothing.
C21_ListNames ==
    /\ \A p \in Procs :
          (rop[p].op = "List" /\ rpc[p] = "runlock") =>
             /\ rret[p].ok
             /\ {rret[p].val[i] : i \in DOMAIN rret[p].val} = RegisteredNames(regLog)
             /\ Len(rret[p].val) = Cardinality(RegisteredNames(regLog))
    /\ providers = StoreAll(regLog)

\* a List after two Register calls under one name, returning it once
C21_Witness ==
    \E p \in Procs :
        /\ rop[p].op = "List" /\ rpc[p] = "runlock"
        /\ Len(regLog) = 2 /\ Name(regLog[1]) = Name(regLog[2])
        /\ rret[p].val = <<Name(regLog[1])>>

\* the byte range [lo, hi) of data
Bytes(data, lo, hi) == SubSeq(data, lo + 1, hi)
Min(a, b) == IF a < b THEN a ELSE b

\* C22: for every upload authorization (n URLs, part size p) and every
\* audio length, uploadParts sends part i the byte range
\* [i*p, min((i+1)*p, len)), and the parts concatenated in URL order are
\* the audio data: every byte is uploaded exactly once.
C22_PartsCoverAudio ==
    (fnCall.fn = "uploadParts" /\ fnRet # NoRun) =>
        /\ ~fnRet.panic
        /\ Len(fnRet.puts) = fnCall.urls
        /\ \A i \in 1..Len(fnRet.puts) :
              fnRet.puts[i] = Bytes(fnCall.audioData, (i - 1) * fnCall.per_size,
                                    Min(i * fnCall.per_size, Len(fnCall.audioData)))
        /\ Flatten(fnRet.puts) = fnCall.audioData

CommitRequests == {r \in inflight : r.step = "commit_upload"}

\* C23: the commit request is issued only after every part upload has
\* succeeded; its Etags value is the comma-joined list of the entity tags
\* captured from the part uploads, one per upload URL in part order, and it
\* carries the in_boss_key, resource_id and upload_id of the call's
\* upload-authorization response.  (etags grows only by the Etag header of
\* the 200 response just received; uploadResp is the data of the
\* authorization response.)
C23_CommitAfterParts ==
    /\ [](\A r \in CommitRequests :
             LET urls == Field(uploadResp, "upload_urls").v IN
             /\ Len(etags) = Len(urls)
             /\ \A i \in 1..Len(urls) : reqCount[<<"upload_parts", i>>] = 1
             /\ r.payload = [InBossKey |-> Field(uploadResp, "in_boss_key"),
                             ResourceId |-> Field(uploadResp, "resource_id"),
                             Etags |-> Join(etags),
                             UploadId |-> Field(uploadResp, "upload_id")])
    /\ [][/\ etags' # etags =>
                /\ pc = "upload_parts"
                /\ lastHTTP'.kind = "resp" /\ lastHTTP'.status = StatusOK
                /\ etags' = Append(etags, lastHTTP'.etag)
          /\ uploadResp' # uploadResp =>
                /\ pc = "request_upload"
                /\ uploadResp' = Field(lastHTTP'.val, "data")]_vars

\* the commit request of a call with two parts, the second of which came
\* back without an Etag header
C23_Witness ==
    \E r \in CommitRequests :
        /\ r.payload.Etags = "e1,"
        /\ r.payload.InBossKey = JStr("k")
        /\ reqCount[<<"upload_parts", 2>>] = 1

\* the utterances array of a raw response of an utterance-based backend,
\* and the keys of an utterance's and a word's text
UtterancesOf(call) ==
    LET us == IF call.provider = "bijian" THEN Field(call.raw, "utterances")
              ELSE Field(Field(call.raw, "data"), "utterances")
    IN IF IsArr(us) THEN us.v ELSE <<>>
TextKey(call) == IF call.provider = "bijian" THEN "transcript" ELSE "text"
WordKey(call) == IF call.provider = "bijian" THEN "label" ELSE "text"

\* the non-empty utterance texts, in input order
RECURSIVE SpokenTexts(_, _)
SpokenTexts(utts, key) ==
    IF utts = <<>> THEN <<>>
    ELSE LET t == Field(Head(utts), key)
         IN (IF IsObj(Head(utts)) /\ IsStr(t) /\ t.v # "" THEN <<t.v>> ELSE <<>>)
            \o SpokenTexts(Tail(utts), key)

\* C24: for the two utterance-based backends a successful Parse has Text
\* equal to the non-empty utterance texts concatenated in input order, one
\* Sentence per utterance with non-empty text in input order, and one Word
\* per object-shaped word entry, in utterance order then word order.
C24_UtteranceMapping ==
    (Parsed /\ praw.provider \in {"bijian", "jianying"} /\ pout.ok) =>
        LET texts == SpokenTexts(UtterancesOf(praw), TextKey(praw))
            entries == WordsIn(praw)
        IN /\ pout.val.Text = Concat(texts)
           /\ Len(pout.val.Sentences) = Len(texts)
           /\ \A i \in 1..Len(texts) : pout.val.Sentences[i].Text = texts[i]
           /\ Len(pout.val.Words) = Len(entries)
           /\ \A k \in 1..Len(entries) :
                 pout.val.Words[k].Text = StrOr(Field(entries[k], WordKey(praw)))

\* an utterance without text followed by one with text and two words: one
\* Sentence, three Words
C24_Witness ==
    /\ Parsed /\ praw.provider = "bijian" /\ pout.ok
    /\ Len(UtterancesOf(praw)) = 2
    /\ ~IsStr(Field(UtterancesOf(praw)[1], "transcript"))
    /\ pout.val.Text = "ab"
    /\ Len(pout.val.Sentences) = 1 /\ Len(pout.val.Words) = 3

\* Parse failed with the ParseError of message m and no result
ParseFailed(m) == pout = Fail(ParseError(m))

\* C25: Parse returns a ParseError naming the missing field, and no result,
\* when a required top-level container is absent or of the wrong shape:
\* text or words (elevenlabs), data or data.utterances (jianying),
\* utterances (bijian); Provider.Parse returns a ParseError when the raw
\* value is not a JSON object.
C25_MissingContainer ==
    Parsed =>
        LET raw == praw.raw IN
        /\ ~IsObj(raw) => (~pout.ok /\ pout.val = JNull /\ pout.err.type = "ParseError")
        /\ (IsObj(raw) /\ praw.provider = "elevenlabs") =>
              /\ ~IsStr(Field(raw, "text")) =>
                    ParseFailed("missing text field in response")
              /\ (IsStr(Field(raw, "text")) /\ ~IsArr(Field(raw, "words"))) =>
                    ParseFailed("missing words field in response")
        /\ (IsObj(raw) /\ praw.provider = "jianying") =>
              /\ ~IsObj(Field(raw, "data")) =>
                    ParseFailed("missing data field in response")
              /\ (IsObj(Field(raw, "data"))
                    /\ ~IsArr(Field(Field(raw, "data"), "utterances"))) =>
                    ParseFailed("missing utterances field in data")
        /\ (IsObj(raw) /\ praw.provider = "bijian"
              /\ ~IsArr(Field(raw, "utterances"))) =>
                  ParseFailed("missing utterances field in response")

\* a jianying response whose data is a string
C25_Witness ==
    /\ Parsed /\ praw.provider = "jianying"
    /\ IsStr(Field(praw.raw, "data"))
    /\ ParseFailed("missing data field in response")

\* every entry of the words arrays of a raw response, objects or not
RECURSIVE WordEntriesOf(_)
WordEntriesOf(utts) ==
    IF utts = <<>> THEN <<>>
    ELSE (IF IsObj(Head(utts)) /\ IsArr(Field(Head(utts), "words"))
          THEN Field(Head(utts), "words").v ELSE <<>>)
         \o WordEntriesOf(Tail(utts))
AllWordEntries(call) ==
    IF call.provider = "elevenlabs"
    THEN (IF IsArr(Field(call.raw, "words")) THEN Field(call.raw, "words").v ELSE <<>>)
    ELSE WordEntriesOf(UtterancesOf(call))
\* a word entry that is not an object, or lacks a text, start or end of the
\* right type
Malformed(call, w) ==
    \/ ~IsObj(w)
    \/ ~IsStr(Field(w, IF call.provider = "elevenlabs" THEN "text" ELSE WordKey(call)))
    \/ ~IsNum(Field(w, IF call.provider = "elevenlabs" THEN "start" ELSE "start_time"))
    \/ ~IsNum(Field(w, IF call.provider = "elevenlabs" THEN "end" ELSE "end_time"))

\* C26 (as claimed): when a word entry is malformed, Parse returns a
\* ParseError, never a successful result that omits the entry or holds a
\* Word with an empty Text or a zero-defaulted Start or End.
C26_NoFabricatedWords ==
    (Parsed /\ \E i \in 1..Len(AllWordEntries(praw)) :
                  Malformed(praw, AllWordEntries(praw)[i])) =>
        (~pout.ok /\ pout.err.type = "ParseError")

FormRequests == {r \in inflight : r.step = "http_request"}

RECURSIVE BigEndian(_, _)
BigEndian(hw, n) == IF hw = <<>> THEN n
                    ELSE BigEndian(Tail(hw), BigMul(n, 256, Head(hw)))
\* the addresses with a non-zero byte, in interface order
NonZeroAddrs(ifaces) ==
    SelectSeq(ifaces, LAMBDA hw : \E i \in 1..Len(hw) : hw[i] # 0)

\* C28 (as claimed): the device identifier is the 3-digit prefix
\* 390 + (year mod 10) followed by a 13-digit suffix: 3278516897751 when
\* the year is odd; on even years the first non-zero hardware address read
\* as a big-endian integer and zero-padded to 13 digits, or 1234567890123
\* when there is none.
C28_DeviceIdentifier ==
    (fnCall.fn = "generateTDID" /\ fnRet # NoRun) =>
        LET addrs == IF fnCall.err THEN <<>> ELSE NonZeroAddrs(fnCall.ifaces)
            suffix == IF fnCall.year % 2 = 1 THEN "3278516897751"
                      ELSE IF addrs = <<>> THEN "1234567890123"
                      ELSE ZeroPad(DecimalString(BigEndian(addrs[1], <<>>)), 13)
        IN /\ Len(fnRet.tdid) = 16
           /\ SubSeq(fnRet.tdid, 1, 3) = DecimalString(BigOf(390 + (fnCall.year % 10)))
           /\ SubSeq(fnRet.tdid, 4, Len(fnRet.tdid)) = suffix

\* the path of a URL of the API host
PathOf(url) == SubSeq(url, Len(apiBaseURL) + 1, Len(url))

\* C29: every request to the credentials, task-submission and task-query
\* endpoints carries the custom header set, in which sign is the digest of
\* the template string built from the last 7 characters of the request's
\* own path, the device-time header and the tdid header; the device
\* identifier is generated once per call and is the same in all of them.
C29_SignedHeaders ==
    \A i \in 1..Len(signed) :
        LET r == signed[i]
            path == PathOf(r.url)
            v == SubSeq(path, Len(path) - 6, Len(path))
        IN /\ r.headers.sign =
                 md5Hash("9e2c|" \o v \o "|4|6.6.0|" \o r.headers["device-time"]
                         \o "|" \o r.headers.tdid \o "|11ac")
           /\ r.headers.tdid = tdid
           /\ r.headers.tdid = signed[1].headers.tdid
           /\ DOMAIN r.headers = {"User-Agent", "appvr", "device-time", "pf", "sign",
                                  "sign-ver", "tdid"}

\* the three signed requests of a call, the last two signed a second apart
C29_Witness ==
    /\ Len(signed) = 3
    /\ signed[2].headers["device-time"] # signed[3].headers["device-time"]
    /\ signed[3].url = apiBaseURL \o "/lv/v1/audio_subtitle/query"
    /\ tdid = "394268678272713219"

\* the pieces of s between the separators sep (one character)
SplitOn(s, sep) ==
    LET at == {i \in 1..Len(s) : SubSeq(s, i, i) = sep}
        n == Cardinality(at)
        nth(k) == IF k = 0 THEN 0
                  ELSE IF k = n + 1 THEN Len(s) + 1
                  ELSE CHOOSE p \in at : Cardinality({q \in at : q < p}) = k - 1
    IN [k \in 1..(n + 1) |-> SubSeq(s, nth(k - 1) + 1, nth(k) - 1)]
\* the query string of a canonical request: its third line
SignedQuery(canonical) == SplitOn(canonical, "\n")[3]
\* the query string of a URL: what follows the question mark
SentQuery(url) == SplitOn(url, "?")[2]
\* the keys of the parameters of a query string, in its order
QueryKeys(query) ==
    LET pairs == SplitOn(query, "&")
    IN [i \in 1..Len(pairs) |-> SplitOn(pairs[i], "=")[1]]
AuthDone == fnCall.fn = "getUploadAuth" /\ fnRet.done

\* C30: the canonical request that is signed for the upload-authorization
\* call lists the query parameters in the fixed order of the request text,
\* which is ascending by the byte values of the keys as written (upper case
\* before lower case, so SpaceName and Version come before s), and the query
\* string that is signed is identical to the one sent in the URL.
C30_SignedQueryIsSentQuery ==
    AuthDone =>
        LET q == SignedQuery(fnRet.signed)
            keys == QueryKeys(q)
        IN /\ q = SentQuery(fnRet.req.url)
           /\ keys = <<"Action", "FileSize", "FileType", "IsInner", "SpaceName",
                       "Version", "s">>
           /\ \A i \in 1..(Len(keys) - 1) : StrLess(keys[i], keys[i + 1])

\* C30 as stated: the parameters of the signed query string are sorted by
\* lowercase key and the signed query string is the one sent.
C30_SortedByLowercaseKey ==
    AuthDone =>
        LET q == SignedQuery(fnRet.signed)
            keys == QueryKeys(q)
        IN /\ q = SentQuery(fnRet.req.url)
           /\ \A i \in 1..(Len(keys) - 1) :
                  ~StrLess(ToLower(keys[i + 1]), ToLower(keys[i]))

\* a megabyte file is signed and sent with a token that had to be trimmed
C30_Witness ==
    /\ AuthDone
    /\ fnCall.fileSize = 1048576 /\ fnCall.sessionToken = " STS2abc "
    /\ SentQuery(fnRet.req.url) = requestParams(1048576)
    /\ fnRet.signed =
         "GET\n/\nAction=ApplyUploadInner&FileSize=1048576&FileType=object&IsInner=1&SpaceName=lv-mac-recognition&Version=2020-11-19&s=5y0udbjapi\nx-amz-date:20250101T000000Z\nx-amz-security-token:STS2abc\n\nx-amz-date;x-amz-security-token\nsha256()"

\* the lines of the canonical request that getUploadAuth signed
SignedLines == SplitOn(fnRet.signed, "\n")
\* the SignedHeaders list of the authorization header that was sent
SentSignedHeaders ==
    SplitOn(SplitOn(fnRet.req.headers["authorization"], ",")[2], "=")[2]
HeaderKeys == {"x-amz-date", "x-amz-security-token"}

\* C31: the canonical headers of the upload-authorization signature are the
\* given headers with lower-cased keys and trimmed values in ascending key
\* order, the signed-header list is those keys in that order, every order
\* in which the header map can be ranged over gives the same canonical
\* request and the same signature, and the signed-header list is the
\* SignedHeaders list of the authorization header.
C31_SignatureDeterministic ==
    AuthDone =>
        LET params == requestParams(fnCall.fileSize)
            headers == [k \in HeaderKeys |-> fnRet.req.headers[k]]
        IN /\ SignedLines[4] = "x-amz-date:" \o fnCall.now
           /\ SignedLines[5] =
                  "x-amz-security-token:" \o TrimSpace(fnCall.sessionToken)
           /\ SignedLines[6] = ""
           /\ SignedLines[7] = "x-amz-date;x-amz-security-token"
           /\ SignedLines[7] = SentSignedHeaders
           /\ \A o \in RangeOrders(HeaderKeys) :
                  /\ canonicalRequest(params, headers, o, "GET", "") = fnRet.signed
                  /\ awsSignature(fnCall.secretKey, params, headers, o, "GET", "",
                                  "cn", "vod") = fnRet.signature

\* the range yielded the token before the date, and the token was trimmed
C31_Witness ==
    /\ AuthDone
    /\ fnCall.order = <<"x-amz-security-token", "x-amz-date">>
    /\ fnCall.sessionToken = " STS2abc "
    /\ SignedLines[4] = "x-amz-date:20240131T235959Z"
    /\ SignedLines[5] = "x-amz-security-token:STS2abc"

\* the steps of jianying that send a signed JSON request with doRequest
SignedSteps == {"upload_sign", "submit_task", "query_result"}
\* a response whose body arrived whole
WholeResponse(o) == o.kind = "resp" /\ ~o.trunc
\* the decoded body is an object whose ret is the string "0"
RetIsZero(o) ==
    /\ o.raw # "" /\ o.json /\ o.val.t = "obj"
    /\ "ret" \in DOMAIN o.val.v
    /\ o.val.v["ret"] = [t |-> "str", v |-> "0"]

\* C32: when a signed JSON request of jianying returns, the step goes on
\* (or Fetch returns a result) only if the status is 200 and ret of the
\* decoded body is the string "0"; a response with another status makes
\* the step fail with an APIError of that status and body; a 200 response
\* whose ret is absent, not a string or not "0", an empty body included,
\* makes the step fail.
C32_SignedRequestOutcome ==
    [][\A s \in SignedSteps :
         (At("jianying", s, "wait") /\ (pc' # pc \/ phase' # phase)) =>
             LET o == lastHTTP'
                 failedHere == phase' = "done" /\ pc' = s /\ ~result'.ok
             IN /\ ~failedHere => (WholeResponse(o) /\ o.status = 200 /\ RetIsZero(o))
                /\ (WholeResponse(o) /\ o.status # 200) =>
                       /\ failedHere
                       /\ result'.err = [type |-> "FetchError", Step |-> s,
                                         Err |-> [type |-> "APIError",
                                                  StatusCode |-> o.status,
                                                  Response |-> o.raw]]
                /\ (WholeResponse(o) /\ o.status = 200 /\ ~RetIsZero(o)) =>
                       /\ failedHere
                       /\ result'.err.type = "FetchError" /\ result'.err.Step = s
      ]_vars

\* the credentials request was answered 200 with the number 0 as ret, and
\* the call failed there
C32_Witness ==
    /\ backend = "jianying" /\ pc = "upload_sign" /\ phase = "done"
    /\ lastHTTP = JsonResp(JObj([ret |-> JNum(0)]))
    /\ ~result.ok /\ result.err.Step = "upload_sign"

PollFailedCancelled ==
    /\ backend = "bijian" /\ pc = "poll_result" /\ phase = "done"
    /\ ~result.ok /\ cancelled

\* C34: when ctx was cancelled before pollResult returned without a
\* completed result, at whatever point of the loop (the sleep after the
\* last permitted attempt included), the error returned is not the
\* polling-timeout error.
C34_CancelBeforeTimeout ==
    PollFailedCancelled => Cause(result.err) # TimeoutErr

\* the values of a request that an earlier response had to supply
Supplied(r) ==
    CASE r.step = "upload_auth" ->
             {r.payload.accessKey, r.payload.secretKey, r.payload.sessionToken}
      [] r.step \in {"upload_file", "upload_check"} ->
             {r.payload.uploadHost, r.payload.storeURI, r.payload.uploadID,
              r.payload.auth}
      [] r.step = "upload_commit" ->
             {r.payload.uploadHost, r.payload.storeURI, r.payload.uploadID,
              r.payload.auth, r.payload.sessionToken}
      [] r.step = "submit_task" -> {r.payload.audio}
      [] r.step = "query_result" -> {r.payload.id}
      [] r.step = "commit_upload" ->
             {IF j.t = "str" THEN j.v ELSE "" :
                  j \in {r.payload.InBossKey, r.payload.ResourceId, r.payload.UploadId}}
      [] r.step = "create_task" -> {r.payload.resource}
      [] r.step = "poll_result" -> {r.payload.task_id}
      [] OTHER -> {}

\* C35: in bijian and jianying no request is issued with a value missing or
\* empty that an earlier response had to supply (credentials, store URI,
\* upload ID, upload host, resource identifiers, download URL, task or
\* query identifier).
C35_NoRequestWithMissingValue ==
    backend \in {"bijian", "jianying"} =>
        \A r \in inflight : "" \notin Supplied(r)

\* C36: for every upload authorization (n >= 0 upload URLs, any numeric
\* part size) and every audio length, uploadParts returns without the
\* slice expression audioData[start:end] going out of range.
C36_NoSlicePanic ==
    (fnCall.fn = "uploadParts" /\ fnRet.done) => ~fnRet.panic

Validating == fnCall.fn = "Validate" /\ fnRet.done

\* C37: for every options type and every initial value, a further call of
\* Validate returns what the first call returned and leaves the value as
\* the first call left it.
C37_ValidateIdempotent ==
    Validating =>
        \A i \in 2..Len(fnRet.errs) :
            /\ fnRet.errs[i] = fnRet.errs[1]
            /\ fnRet.opts[i] = fnRet.opts[1]

\* Validate filled the default end time in the first call and returned nil;
\* the second call returned nil and left the value as it was
C37_Witness ==
    /\ Validating /\ Len(fnRet.errs) = 2
    /\ fnCall.opts = JianyingOptions(F(10), F(0))
    /\ fnRet.opts[1] # fnCall.opts
    /\ fnRet.opts[2] = JianyingOptions(F(10), F(6000))
    /\ fnRet.errs = <<NoErr, NoErr>>

\* the value the i-th call of Validate was made on
ValueBefore(i) == IF i = 1 THEN fnCall.opts ELSE fnRet.opts[i - 1]

\* C38: a call of Validate that returns an error leaves the options value
\* as it was before the call: no default is written when validation fails.
C38_FailedValidateWritesNothing ==
    Validating =>
        \A i \in 1..Len(fnRet.errs) :
            fnRet.errs[i] # NoErr => fnRet.opts[i] = ValueBefore(i)

\* C39: for a fixed template and fixed values, Render returns the same
\* string in whatever order the value map is ranged over, also when the
\* text of a value contains the placeholder of another variable.
C39_RenderDeterministic ==
    (fnCall.fn = "Render" /\ fnRet.done) =>
        \A o \in RangeOrders(DOMAIN fnCall.values) :
            Render(fnCall.template, fnCall.values, o).out = fnRet.out

====
